---- MODULE Spec2Model ----
(***************************************************************************)
(* Account and session lifecycle of the mlogs backend: the user            *)
(* controller (register, confirmation, login, logout, refreshToken and the *)
(* password handlers) over the userAuthDbServices store.  Each handler is  *)
(* translated from src/src/controller/blogController.ts; a handler with    *)
(* several awaited store calls whose interleaving matters (login, register,*)
(* confirmation) is split at those calls.                                  *)
(***************************************************************************)
EXTENDS Integers, Sequences, FiniteSets, TLC

\* ---------------------------------------------------------------- bounds
MaxUsers == 1        \* user records the store may hold
MaxTime  == 2        \* the clock runs 0..MaxTime (token issuedAt granularity)
MaxAccounts == 2     \* user records and identities where registrations interleave
MaxResets == 2       \* reset tokens drawn per user
MinutesPerTick == 15 \* minutes of wall clock in one step of the clock
UnitsPerMinute == 2  \* resolution of the wall clock read by moment()
MaxOffset == 1       \* clock units the wall clock may stand past a step of the clock
MaxBlogs == 2        \* posts the store may hold
MaxComments == 2     \* comment rows ever created

\* Token lifetimes (configuration read through AppConfig.get)
ACCESS_TOKEN_EXPIRY  == 1
REFRESH_TOKEN_EXPIRY == 2

\* Password reset: minutes a reset link is issued for (generateExpirationTime)
\* and the limit of resetPassword's minutesDifference check
RESET_EXPIRY_MINUTES  == 15
RESET_TIMEOUT_MINUTES == 15

Procs     == {"r1", "r2"}          \* request slots a login may run in
UserIds   == 1..MaxUsers
Emails    == {<<"email", i>> : i \in UserIds}
Usernames == {<<"username", i>> : i \in UserIds}
UnknownKey == <<"email", 0>>       \* an identifier no account is registered with
Passwords == {"pw1", "pw2"}
Codes     == {"111111"}            \* OTP values drawn by generateOTP
NULL      == -1                    \* a null timestamp column

\* Identities and inputs of the interleaved registrations and confirmations
AccountIds       == 1..MaxAccounts
AccountEmails    == {<<"email", i>> : i \in AccountIds}
AccountUsernames == {<<"username", i>> : i \in AccountIds}
AccountCodes     == {"111111", "222222"}
ConfirmTokens    == 0..MaxAccounts     \* 0: a token no account holds

\* Identities and inputs of the blog requests
BlogIds    == 1..MaxBlogs
CommentIds == 1..MaxComments
MissingBlog == MaxBlogs + 1                    \* the id of no post
Pairs      == AccountIds \X (1..MissingBlog)  \* (userId, postId)
Texts      == {"text1", "text2"}

\* ---------------------------------------------------------------- hasher
\* quicker.hashPassword / quicker.comparePassword: a one-way digest and its
\* verification.
hashPassword(p) == <<"digest", p>>

comparePassword(p, digest) == digest = hashPassword(p)

\* ----------------------------------------------------------- token codec
\* A token is the signed encoding of its claims; the signing secret is the
\* field "secret".  email and username of the payload are fixed attributes
\* of the user and are carried by "sub".
NoToken   == [sub |-> 0, secret |-> "none", iat |-> 0, exp |-> 0]
Malformed == [sub |-> 0, secret |-> "malformed", iat |-> 0, exp |-> 0]
Forged    == [sub |-> 1, secret |-> "other", iat |-> 0, exp |-> MaxTime + 1]

\* quicker.generateToken(payload, secret, expiry), called at time t
generateToken(uid, secret, ttl, t) ==
  [sub |-> uid, secret |-> secret, iat |-> t, exp |-> t + ttl]

\* quicker.verifyToken(token, secret) at time t: "ok" or the error thrown
\* (the catch block of the handler turns the throw into the error response)
verifyToken(tok, secret, t) ==
  IF tok.secret = "malformed" THEN "TOKEN_MALFORMED"
  ELSE IF tok.secret # secret THEN "TOKEN_INVALID"
  ELSE IF t >= tok.exp THEN "TOKEN_EXPIRED"
  ELSE "ok"

\* ----------------------------------------------------------------- state
VARIABLES
  now,            \* wall clock
  users,          \* User table with its AccountConfirmation: Seq of records, userId = index
  refreshTokens,  \* RefreshToken table: userId -> token, NoToken when no row
  procs,          \* per request slot: position in login and its locals
  lastAccess,     \* userId -> the access token issued last for this user
  resp,           \* record of the step just taken and of the response it sent, if any
  lastIssued,     \* userId -> refresh token returned by the latest successful login
  superseded,     \* userId -> refresh tokens returned by earlier successful logins
  raceLosers,     \* userId -> refresh tokens of logins overtaken by an overlapping login
  loggedOut,      \* userId -> a logout completed and no login succeeded since
  audit,          \* per User row: password set by the last successful request,
                  \* number of confirmAccount writes, of confirmation mails and
                  \* of reset tokens drawn; per reset token the password
                  \* updates and the success responses it led to
  passwordRecovery, \* PasswordRecovery table: userId -> row, NoRecovery when no row
  offset,         \* wall clock: time past the last step of `now`, in clock units
  posts,          \* Post table: the posts have the ids 1..posts
  likedPosts,     \* Like table: (userId, postId) -> number of rows
  savedPosts,     \* Save table: (userId, postId) -> number of rows
  comments        \* Comment table: Seq of rows, commentId = index, deleted rows kept
                  \* with exists = FALSE

vars == <<now, users, refreshTokens, procs, lastAccess, resp,
          lastIssued, superseded, raceLosers, loggedOut, audit, passwordRecovery,
          offset, posts, likedPosts, savedPosts, comments>>

engagement == <<posts, likedPosts, savedPosts, comments>>

hist == <<lastIssued, superseded, raceLosers, loggedOut, audit>>

\* The fields of a request body a handler keeps in its locals across awaits.
NoBody == [email |-> <<"none", 0>>, username |-> <<"none", 0>>, password |-> "",
           code |-> "", mailed |-> FALSE, token |-> 0]

Idle == [pc |-> "idle", uid |-> 0, accessToken |-> NoToken, refreshToken |-> NoToken,
         overlap |-> {}, body |-> NoBody]

\* The user object of a response body: the columns the store call selected.
NoPassword == <<"absent", "">>

NoUser == [userId |-> 0, email |-> <<"none", 0>>, password |-> NoPassword]

\* A PasswordRecovery row; token 0 and expiry NULL are the null columns.
NoRecovery == [exists |-> FALSE, token |-> 0, expiry |-> NULL, lastResetAt |-> NULL]

\* The record of the step just taken: the request it belongs to (op and its
\* inputs) and, when the step ends the request, the response (status # 0).
NoResp == [op |-> "none", status |-> 0, msg |-> "", uid |-> 0,
           key |-> <<"none", 0>>, password |-> "",
           hadAccess |-> FALSE, hadRefresh |-> FALSE, presented |-> NoToken,
           setAccess |-> NoToken, setRefresh |-> NoToken,
           cleared |-> FALSE, storeCalls |-> 0, mail |-> "none",
           username |-> <<"none", 0>>, token |-> 0, code |-> "",
           returned |-> NoUser, oldPassword |-> "",
           blogId |-> 0, commentId |-> 0, text |-> ""]

Init ==
  /\ now = 0
  /\ users = <<>>
  /\ refreshTokens = [u \in UserIds |-> NoToken]
  /\ procs = [p \in Procs |-> Idle]
  /\ lastAccess = [u \in UserIds |-> NoToken]
  /\ resp = NoResp
  /\ lastIssued = [u \in UserIds |-> NoToken]
  /\ superseded = [u \in UserIds |-> {}]
  /\ raceLosers = [u \in UserIds |-> {}]
  /\ loggedOut = [u \in UserIds |-> FALSE]
  /\ audit = <<>>
  /\ passwordRecovery = [u \in UserIds |-> NoRecovery]
  /\ offset = 0
  /\ posts = 0
  /\ likedPosts = [pr \in Pairs |-> 0]
  /\ savedPosts = [pr \in Pairs |-> 0]
  /\ comments = <<>>

Registered == 1..Len(users)

\* ---------------------------------------------------------- store reads
findUserByEmail(email) == {u \in Registered : users[u].email = email}

findUserByUsernameNone(username) == {}

findUserByUsername(username) == {u \in Registered : users[u].username = username}

findUserByTokenOrCode(token, code) ==
  {u \in Registered : users[u].token = token \/ users[u].code = code}

findUserByTokenAndCode(token, code) ==
  {u \in Registered : users[u].token = token /\ users[u].code = code}

findUserByEmailOrUsernameAnyStatus(key) ==
  {u \in Registered : users[u].email = key \/ users[u].username = key}

findUserByEmailOrUsername(key) ==
  {u \in Registered : /\ (users[u].email = key \/ users[u].username = key)
                      /\ users[u].isVerified}

getRefreshToken(uid) == refreshTokens[uid]

\* --------------------------------------------------------- store writes
createUser(payload) == Append(users, payload)

\* what createUser resolves to: the row under its select (no password column)
createUserResult(uid, payload) ==
  [userId |-> uid, email |-> payload.email, password |-> NoPassword]

confirmAccount(uid) ==
  [users EXCEPT ![uid].isVerified = TRUE, ![uid].timestamp = now]

\* what confirmAccount resolves to: prisma update with include and no select
\* returns every scalar column of the row, the password column among them
confirmAccountResult(uid) ==
  [userId |-> uid, email |-> users[uid].email, password |-> users[uid].password]

\* the user object login builds for its response body
loginResponseUser(uid) ==
  [userId |-> uid, email |-> users[uid].email, password |-> NoPassword]

\* ghost bookkeeping for a new row and for a confirmation
NewAudit(password) ==
  [lastSet |-> password, confirmWrites |-> 0, confirmMails |-> 0, resets |-> 0,
   resetWrites |-> [t \in 1..(MaxUsers * MaxResets) |-> 0],
   resetSuccesses |-> [t \in 1..(MaxUsers * MaxResets) |-> 0]]

AuditConfirm(uid, writes, mails) ==
  [audit EXCEPT ![uid].confirmWrites = @ + writes, ![uid].confirmMails = @ + mails]

updateUserLastLogin(uid) == [users EXCEPT ![uid].lastLoginAt = now]

updateRefreshTokenKeepFirst(uid, tok) ==
  IF refreshTokens[uid] = NoToken THEN [refreshTokens EXCEPT ![uid] = tok]
  ELSE refreshTokens

\* prisma.refreshToken.upsert on the unique key userId
updateRefreshToken(uid, tok) == [refreshTokens EXCEPT ![uid] = tok]

\* prisma.refreshToken.delete: throws when no row has this userId
deleteRefreshTokenThrows(uid) == refreshTokens[uid] = NoToken

deleteRefreshToken(uid) == [refreshTokens EXCEPT ![uid] = NoToken]

\* ------------------------------------------------- password store calls
\* the wall clock as moment() reads it, in clock units
NowUnits == now * MinutesPerTick * UnitsPerMinute + offset

\* quicker.generateExpirationTime(minutes): the time that many minutes ahead
generateExpirationTime(minutes) == NowUnits + minutes * UnitsPerMinute

\* quicker.generateRandomToken for a reset link: a value never drawn before
NewResetToken(uid) == (uid - 1) * MaxResets + audit[uid].resets + 1

ResetTokens == 1..(MaxUsers * MaxResets)
UnknownResetToken == MaxUsers * MaxResets + 1

findUserByResetTokenAny(token) == {u \in UserIds : passwordRecovery[u].exists}

findUserByResetToken(token) ==
  {u \in UserIds : passwordRecovery[u].exists /\ passwordRecovery[u].token = token}

saveResetPasswordCodeKeepFirst(uid, token, date) ==
  IF passwordRecovery[uid].exists THEN passwordRecovery
  ELSE [passwordRecovery EXCEPT ![uid].exists = TRUE, ![uid].token = token,
                                ![uid].expiry = date]

\* prisma.passwordRecovery.upsert on the unique key userId
saveResetPasswordCode(uid, token, date) ==
  [passwordRecovery EXCEPT ![uid].exists = TRUE, ![uid].token = token,
                           ![uid].expiry = date]

getExpiryTime(uid) == passwordRecovery[uid].expiry

getPasswordbyUserId(uid) == users[uid].password

updateUserPasswordbyIdNoWrite(uid, digest) == users

updateUserPasswordbyId(uid, digest) == [users EXCEPT ![uid].password = digest]

changePasswordbyUserId(uid, digest) == [users EXCEPT ![uid].password = digest]

clearResetTokenAndExpiryNoWrite(uid) == passwordRecovery

clearResetTokenOnly(uid) == [passwordRecovery EXCEPT ![uid].token = 0]

clearResetTokenAndExpiry(uid) ==
  [passwordRecovery EXCEPT ![uid].token = 0, ![uid].expiry = NULL]

\* the nested passwordRecovery update of prisma.user.update throws when the
\* user has no PasswordRecovery row
updateLastPasswordChangeThrows(uid) == ~passwordRecovery[uid].exists

updateLastPasswordChange(uid) == [passwordRecovery EXCEPT ![uid].lastResetAt = now]

minutesDifferenceRounded(expiry) ==
  IF NowUnits >= expiry
    THEN (2 * (NowUnits - expiry) + UnitsPerMinute) \div (2 * UnitsPerMinute)
    ELSE 0 - ((2 * (expiry - NowUnits) + UnitsPerMinute) \div (2 * UnitsPerMinute))

\* currentMoment.diff(expiryMoment, "minutes"): the difference in minutes,
\* truncated toward zero
minutesDifference(expiry) ==
  IF NowUnits >= expiry
    THEN (NowUnits - expiry) \div UnitsPerMinute
    ELSE 0 - ((expiry - NowUnits) \div UnitsPerMinute)

\* ------------------------------------------------------------------ time
\* The clock reaches its next step.
Tick ==
  /\ now < MaxTime
  /\ now' = now + 1
  /\ offset' = 0
  /\ resp' = NoResp
  /\ UNCHANGED <<users, refreshTokens, procs, lastAccess, hist>>
  /\ UNCHANGED passwordRecovery
  /\ UNCHANGED engagement

\* The wall clock advances by one clock unit within the current step.
SubTick ==
  /\ offset < MaxOffset
  /\ offset' = offset + 1
  /\ resp' = NoResp
  /\ UNCHANGED <<now, users, refreshTokens, procs, lastAccess, hist, passwordRecovery>>
  /\ UNCHANGED engagement

\* -------------------------------------------------------------- register
\* register: email check, username check, hash, verification mail, create.
\* The payload of createUser: generateRandomToken yields a value no other
\* account holds.
NewUser(email, username, password, code) ==
  [email |-> email, username |-> username, password |-> hashPassword(password),
   token |-> Len(users) + 1, code |-> code,
   isVerified |-> FALSE, timestamp |-> NULL, lastLoginAt |-> NULL]

Register(email, username, password, code, mailOk) ==
  /\ IF findUserByEmail(email) # {}
       THEN /\ resp' = [NoResp EXCEPT !.op = "register", !.status = 400,
                                      !.msg = "ENTITY_EXISTS", !.storeCalls = 1]
            /\ UNCHANGED <<users, audit>>
     ELSE IF findUserByUsername(username) # {}
       THEN /\ resp' = [NoResp EXCEPT !.op = "register", !.status = 400,
                                      !.msg = "USERNAME_TAKEN", !.storeCalls = 2]
            /\ UNCHANGED <<users, audit>>
     ELSE IF ~mailOk
       THEN /\ resp' = [NoResp EXCEPT !.op = "register", !.status = 500,
                                      !.msg = "MAIL_FAILED", !.storeCalls = 2]
            /\ UNCHANGED <<users, audit>>
     ELSE /\ Len(users) < MaxUsers
          /\ users' = createUser(NewUser(email, username, password, code))
          /\ audit' = Append(audit, NewAudit(password))
          /\ resp' = [NoResp EXCEPT !.op = "register", !.status = 201,
                                    !.msg = "REGISTERED", !.uid = Len(users) + 1,
                                    !.storeCalls = 3, !.mail = "verification",
                                    !.returned =
                                      createUserResult(Len(users) + 1,
                                        NewUser(email, username, password, code))]
  /\ UNCHANGED <<now, refreshTokens, procs, lastAccess,
                 lastIssued, superseded, raceLosers, loggedOut>>
  /\ UNCHANGED passwordRecovery
  /\ UNCHANGED offset
  /\ UNCHANGED engagement

\* ---------------------------------------------------------- confirmation
alreadyVerifiedNever(uid) == FALSE

\* confirmation's check on the fetched user: accountConfirmation.isVerified
alreadyVerified(uid) == users[uid].isVerified

ConfStep(msg, token, code) ==
  [NoResp EXCEPT !.op = "confirmation", !.msg = msg, !.token = token, !.code = code]

Confirmation(token, code, mailOk) ==
  /\ LET found == findUserByTokenAndCode(token, code) IN
     IF found = {}
       THEN /\ resp' = [ConfStep("INVALID_TOKEN_CODE", token, code) EXCEPT
                          !.status = 401, !.storeCalls = 1]
            /\ UNCHANGED <<users, audit>>
     ELSE \E uid \in found :
       IF alreadyVerified(uid)
         THEN /\ resp' = [ConfStep("ACCOUNT_ALREADY_VERIFIED", token, code) EXCEPT
                            !.status = 400, !.uid = uid, !.storeCalls = 1]
              /\ UNCHANGED <<users, audit>>
       ELSE /\ users' = confirmAccount(uid)
            /\ audit' = AuditConfirm(uid, 1, IF mailOk THEN 1 ELSE 0)
            /\ resp' = IF mailOk
                         THEN [ConfStep("ACCOUNT_CONFIRMED", token, code) EXCEPT
                                 !.status = 200, !.uid = uid, !.storeCalls = 2,
                                 !.mail = "confirmed",
                                 !.returned = confirmAccountResult(uid)]
                         ELSE [ConfStep("MAIL_FAILED", token, code) EXCEPT
                                 !.status = 500, !.uid = uid, !.storeCalls = 2]
  /\ UNCHANGED <<now, refreshTokens, procs, lastAccess,
                 lastIssued, superseded, raceLosers, loggedOut>>
  /\ UNCHANGED passwordRecovery
  /\ UNCHANGED offset
  /\ UNCHANGED engagement

\* ------------------------------------------------- register, step by step
\* register split at its awaits, for requests that run concurrently: the two
\* lookups, sendVerificationEmail, createUser.
RegStep(msg, body) ==
  [NoResp EXCEPT !.op = "register", !.msg = msg, !.key = body.email,
                 !.username = body.username]

AnotherIdle(p) == [procs EXCEPT ![p] = Idle]

\* findUserByEmail and its check
RegFindEmail(p, email, username, password, code) ==
  /\ procs[p].pc = "idle"
  /\ LET body == [NoBody EXCEPT !.email = email, !.username = username,
                                !.password = password, !.code = code] IN
     IF findUserByEmail(email) # {}
       THEN /\ resp' = [RegStep("ENTITY_EXISTS", body) EXCEPT !.status = 400,
                                                              !.storeCalls = 1]
            /\ UNCHANGED procs
     ELSE /\ procs' = [procs EXCEPT ![p].pc = "reg_username", ![p].body = body]
          /\ resp' = [RegStep("email_free", body) EXCEPT !.storeCalls = 1]
  /\ UNCHANGED <<now, users, refreshTokens, lastAccess, hist>>
  /\ UNCHANGED passwordRecovery
  /\ UNCHANGED offset
  /\ UNCHANGED engagement

\* findUserByUsername and its check; then the hash, the token and the code
RegFindUsername(p) ==
  /\ procs[p].pc = "reg_username"
  /\ IF findUserByUsername(procs[p].body.username) # {}
       THEN /\ resp' = [RegStep("USERNAME_TAKEN", procs[p].body) EXCEPT
                          !.status = 400, !.storeCalls = 1]
            /\ procs' = AnotherIdle(p)
     ELSE /\ procs' = [procs EXCEPT ![p].pc = "reg_mail"]
          /\ resp' = [RegStep("username_free", procs[p].body) EXCEPT !.storeCalls = 1]
  /\ UNCHANGED <<now, users, refreshTokens, lastAccess, hist>>
  /\ UNCHANGED passwordRecovery
  /\ UNCHANGED offset
  /\ UNCHANGED engagement

RegMailSwallowed(p, ok) ==
  /\ procs[p].pc = "reg_mail"
  /\ procs' = [procs EXCEPT ![p].pc = "reg_create", ![p].body.mailed = ok]
  /\ resp' = IF ok THEN [RegStep("mail_sent", procs[p].body) EXCEPT !.mail = "verification"]
                   ELSE [RegStep("MAIL_FAILED", procs[p].body) EXCEPT !.status = 500]
  /\ UNCHANGED <<now, users, refreshTokens, lastAccess, hist>>
  /\ UNCHANGED passwordRecovery
  /\ UNCHANGED offset
  /\ UNCHANGED engagement

\* sendVerificationEmail: a failure throws and the catch block answers 500
RegMail(p, ok) ==
  /\ procs[p].pc = "reg_mail"
  /\ IF ok
       THEN /\ procs' = [procs EXCEPT ![p].pc = "reg_create", ![p].body.mailed = TRUE]
            /\ resp' = [RegStep("mail_sent", procs[p].body) EXCEPT !.mail = "verification"]
     ELSE /\ procs' = AnotherIdle(p)
          /\ resp' = [RegStep("MAIL_FAILED", procs[p].body) EXCEPT !.status = 500]
  /\ UNCHANGED <<now, users, refreshTokens, lastAccess, hist>>
  /\ UNCHANGED passwordRecovery
  /\ UNCHANGED offset
  /\ UNCHANGED engagement

createUserNeverThrows(email, username) == FALSE

\* prisma.user.create on a User whose email and username columns are unique:
\* the insert of a second row with either value is rejected
createUserThrows(email, username) ==
  \E u \in Registered : users[u].email = email \/ users[u].username = username

\* createUser and the success response; a rejected insert throws and the
\* catch block answers 500
RegCreate(p) ==
  /\ procs[p].pc = "reg_create"
  /\ LET body == procs[p].body
         payload == NewUser(body.email, body.username, body.password, body.code) IN
     IF createUserThrows(body.email, body.username)
       THEN /\ resp' = [RegStep("UNIQUE_CONSTRAINT_FAILED", body) EXCEPT
                          !.status = 500, !.storeCalls = 1]
            /\ UNCHANGED <<users, audit>>
     ELSE /\ Len(users) < MaxAccounts
          /\ users' = createUser(payload)
          /\ audit' = Append(audit, NewAudit(body.password))
          /\ resp' = [RegStep("REGISTERED", body) EXCEPT
                        !.status = 201, !.uid = Len(users) + 1, !.storeCalls = 1,
                        !.mail = IF body.mailed THEN "verification" ELSE "none",
                        !.returned = createUserResult(Len(users) + 1, payload)]
  /\ procs' = AnotherIdle(p)
  /\ UNCHANGED <<now, refreshTokens, lastAccess,
                 lastIssued, superseded, raceLosers, loggedOut>>
  /\ UNCHANGED passwordRecovery
  /\ UNCHANGED offset
  /\ UNCHANGED engagement

\* --------------------------------------------- confirmation, step by step
\* confirmation split at its awaits: findUserByTokenAndCode with the two
\* checks, confirmAccount, accountConfirmedEmail.
ConfFind(p, token, code) ==
  /\ procs[p].pc = "idle"
  /\ LET found == findUserByTokenAndCode(token, code) IN
     IF found = {}
       THEN /\ resp' = [ConfStep("INVALID_TOKEN_CODE", token, code) EXCEPT
                          !.status = 401, !.storeCalls = 1]
            /\ UNCHANGED procs
     ELSE \E uid \in found :
       IF alreadyVerified(uid)
         THEN /\ resp' = [ConfStep("ACCOUNT_ALREADY_VERIFIED", token, code) EXCEPT
                            !.status = 400, !.uid = uid, !.storeCalls = 1]
              /\ UNCHANGED procs
       ELSE /\ procs' = [procs EXCEPT ![p].pc = "conf_write", ![p].uid = uid]
            /\ resp' = [ConfStep("found", token, code) EXCEPT !.uid = uid,
                                                              !.storeCalls = 1]
  /\ UNCHANGED <<now, users, refreshTokens, lastAccess, hist>>
  /\ UNCHANGED passwordRecovery
  /\ UNCHANGED offset
  /\ UNCHANGED engagement

ConfWrite(p) ==
  /\ procs[p].pc = "conf_write"
  /\ LET uid == procs[p].uid IN
     /\ users' = confirmAccount(uid)
     /\ audit' = AuditConfirm(uid, 1, 0)
     /\ procs' = [procs EXCEPT ![p].pc = "conf_mail"]
     /\ resp' = [ConfStep("confirm_write", users[uid].token, users[uid].code) EXCEPT
                   !.uid = uid, !.storeCalls = 1]
  /\ UNCHANGED <<now, refreshTokens, lastAccess,
                 lastIssued, superseded, raceLosers, loggedOut>>
  /\ UNCHANGED passwordRecovery
  /\ UNCHANGED offset
  /\ UNCHANGED engagement

ConfMail(p, ok) ==
  /\ procs[p].pc = "conf_mail"
  /\ LET uid == procs[p].uid
         req == [ConfStep("MAIL_FAILED", users[uid].token, users[uid].code) EXCEPT
                   !.uid = uid] IN
     IF ok
       THEN /\ audit' = AuditConfirm(uid, 0, 1)
            /\ resp' = [req EXCEPT !.status = 200, !.msg = "ACCOUNT_CONFIRMED",
                                   !.mail = "confirmed",
                                   !.returned = confirmAccountResult(uid)]
     ELSE /\ resp' = [req EXCEPT !.status = 500]
          /\ UNCHANGED audit
  /\ procs' = AnotherIdle(p)
  /\ UNCHANGED <<now, users, refreshTokens, lastAccess,
                 lastIssued, superseded, raceLosers, loggedOut>>
  /\ UNCHANGED passwordRecovery
  /\ UNCHANGED offset
  /\ UNCHANGED engagement

\* ----------------------------------------------------------------- login
\* Cookie values a client can send: nothing, a token it was given, or a
\* string the server never signed.  Of the access tokens given out for one
\* user only the latest is kept: it outlives the earlier ones, and logout and
\* refresh read nothing of an access token but its subject and validity.
IssuedRefresh(u) == (superseded[u] \cup {lastIssued[u]}) \ {NoToken}

Cookies ==
  {NoToken, Malformed, Forged}
    \cup UNION {IssuedRefresh(u) \cup {lastAccess[u]} : u \in UserIds}

loginCredentialsOkAnyPassword(uid, password) == TRUE

\* login's password check on the fetched user: isPasswordMatch
loginCredentialsOk(uid, password) == comparePassword(password, users[uid].password)

LoginStep(step, key, password) ==
  [NoResp EXCEPT !.op = "login", !.msg = step, !.key = key, !.password = password]

\* login up to its first store call: body validation, findUserByEmailOrUsername,
\* comparePassword against the fetched hash.
LoginFind(p, key, password, parsedOk) ==
  /\ procs[p].pc = "idle"
  /\ LET found == findUserByEmailOrUsername(key) IN
     IF ~parsedOk
       THEN /\ resp' = [NoResp EXCEPT !.op = "login", !.msg = "VALIDATION_ERROR",
                                      !.status = 400]
            /\ UNCHANGED procs
     ELSE IF found = {}
       THEN /\ resp' = [LoginStep("INVALID_CREDENTIALS", key, password) EXCEPT
                          !.status = 401, !.storeCalls = 1]
            /\ UNCHANGED procs
     ELSE \E uid \in found :
       IF ~loginCredentialsOk(uid, password)
         THEN /\ resp' = [LoginStep("INVALID_CREDENTIALS", key, password) EXCEPT
                            !.status = 401, !.uid = uid, !.storeCalls = 1]
              /\ UNCHANGED procs
       ELSE /\ procs' = [procs EXCEPT ![p].pc = "login_stamp", ![p].uid = uid]
            /\ resp' = [LoginStep("find", key, password) EXCEPT !.uid = uid,
                                                                 !.storeCalls = 1]
  /\ UNCHANGED <<now, users, refreshTokens, lastAccess, hist>>
  /\ UNCHANGED passwordRecovery
  /\ UNCHANGED offset
  /\ UNCHANGED engagement

\* login: both tokens are signed, then updateUserLastLogin is awaited.
LoginStamp(p) ==
  /\ procs[p].pc = "login_stamp"
  /\ LET uid == procs[p].uid IN
     /\ procs' = [procs EXCEPT
          ![p].pc = "login_upsert",
          ![p].accessToken = generateToken(uid, "access", ACCESS_TOKEN_EXPIRY, now),
          ![p].refreshToken = generateToken(uid, "refresh", REFRESH_TOKEN_EXPIRY, now)]
     /\ users' = updateUserLastLogin(uid)
     /\ resp' = [NoResp EXCEPT !.op = "login", !.msg = "stamp", !.uid = uid,
                               !.storeCalls = 1]
  /\ UNCHANGED <<now, refreshTokens, lastAccess, hist>>
  /\ UNCHANGED passwordRecovery
  /\ UNCHANGED offset
  /\ UNCHANGED engagement

\* login: updateRefreshToken is awaited, then the cookies are set and the
\* success response is sent.
LoginUpsert(p) ==
  /\ procs[p].pc = "login_upsert"
  /\ LET uid == procs[p].uid
         at  == procs[p].accessToken
         rt  == procs[p].refreshToken IN
     /\ refreshTokens' = updateRefreshToken(uid, rt)
     /\ lastAccess' = [lastAccess EXCEPT ![uid] = at]
     /\ resp' = [NoResp EXCEPT !.op = "login", !.status = 200, !.msg = "LOGIN_SUCCESS",
                               !.uid = uid, !.setAccess = at, !.setRefresh = rt,
                               !.storeCalls = 1, !.returned = loginResponseUser(uid)]
     /\ procs' = [q \in Procs |->
                    IF q = p THEN Idle
                    ELSE IF procs[q].pc # "idle" /\ procs[q].uid = uid
                      THEN [procs[q] EXCEPT !.overlap = @ \cup {rt}]
                    ELSE procs[q]]
     /\ lastIssued' = [lastIssued EXCEPT ![uid] = rt]
     /\ superseded' = [superseded EXCEPT ![uid] = @ \cup ({lastIssued[uid]} \ {NoToken})]
     /\ raceLosers' = [raceLosers EXCEPT ![uid] = @ \cup procs[p].overlap]
     /\ loggedOut' = [loggedOut EXCEPT ![uid] = FALSE]
  /\ UNCHANGED <<now, users, audit>>
  /\ UNCHANGED passwordRecovery
  /\ UNCHANGED offset
  /\ UNCHANGED engagement

\* ---------------------------------------------------------------- logout
\* The authentication middleware in front of logout: the accessToken cookie
\* must be a token the server signed with the access secret and not expired;
\* its subject becomes req.authenticatedUser.
Authenticated(at) ==
  /\ at \in {lastAccess[u] : u \in UserIds}
  /\ verifyToken(at, "access", now) = "ok"

\* logout: deleteRefreshToken only when the refreshToken cookie is present;
\* a throw of the store call skips clearAuthCookies and answers 500.
Logout(at, rt) ==
  /\ Authenticated(at)
  /\ LET uid == at.sub
         req == [NoResp EXCEPT !.op = "logout", !.uid = uid, !.hadAccess = TRUE,
                               !.hadRefresh = (rt # NoToken)] IN
     IF rt # NoToken
       THEN IF deleteRefreshTokenThrows(uid)
              THEN /\ resp' = [req EXCEPT !.status = 500, !.msg = "RECORD_NOT_FOUND",
                                          !.storeCalls = 1]
                   /\ UNCHANGED <<refreshTokens, loggedOut>>
            ELSE /\ refreshTokens' = deleteRefreshToken(uid)
                 /\ resp' = [req EXCEPT !.status = 200, !.msg = "LOGOUT_SUCCESS",
                                        !.cleared = TRUE, !.storeCalls = 1]
                 /\ loggedOut' = [loggedOut EXCEPT ![uid] = TRUE]
     ELSE /\ resp' = [req EXCEPT !.status = 200, !.msg = "LOGOUT_SUCCESS",
                                 !.cleared = TRUE]
          /\ loggedOut' = [loggedOut EXCEPT ![uid] = TRUE]
          /\ UNCHANGED refreshTokens
  /\ UNCHANGED <<now, users, procs, lastAccess, lastIssued, superseded, raceLosers,
                 audit>>
  /\ UNCHANGED passwordRecovery
  /\ UNCHANGED offset
  /\ UNCHANGED engagement

\* ---------------------------------------------------------- refreshToken
refreshOutcomeNoAccessCheck(at, rt) ==
  IF rt = NoToken THEN "NO_TOKEN_FOUND"
  ELSE IF verifyToken(rt, "refresh", now) # "ok" THEN verifyToken(rt, "refresh", now)
  ELSE IF getRefreshToken(rt.sub) = NoToken \/ getRefreshToken(rt.sub) # rt
    THEN "NO_SNIFFING"
  ELSE "TOKEN_REFRESHED"

refreshOutcomeNoReplayCheck(at, rt) ==
  IF at # NoToken THEN "ACCESS_DENIED"
  ELSE IF rt = NoToken THEN "NO_TOKEN_FOUND"
  ELSE IF verifyToken(rt, "refresh", now) # "ok" THEN verifyToken(rt, "refresh", now)
  ELSE "TOKEN_REFRESHED"

refreshOutcomeAnySecret(at, rt) ==
  IF at # NoToken THEN "ACCESS_DENIED"
  ELSE IF rt = NoToken THEN "NO_TOKEN_FOUND"
  ELSE IF verifyToken(rt, rt.secret, now) # "ok" THEN verifyToken(rt, rt.secret, now)
  ELSE IF getRefreshToken(rt.sub) = NoToken \/ getRefreshToken(rt.sub) # rt
    THEN "NO_SNIFFING"
  ELSE "TOKEN_REFRESHED"

\* The branch refreshToken takes for the two cookies of the request.
refreshOutcome(at, rt) ==
  IF at # NoToken THEN "ACCESS_DENIED"
  ELSE IF rt = NoToken THEN "NO_TOKEN_FOUND"
  ELSE IF verifyToken(rt, "refresh", now) # "ok" THEN verifyToken(rt, "refresh", now)
  ELSE IF getRefreshToken(rt.sub) = NoToken \/ getRefreshToken(rt.sub) # rt
    THEN "NO_SNIFFING"
  ELSE "TOKEN_REFRESHED"

refreshStatus(outcome) ==
  IF outcome = "TOKEN_REFRESHED" THEN 200
  ELSE IF outcome = "ACCESS_DENIED" THEN 403
  ELSE 401

RefreshRotating(at, rt) ==
  /\ LET outcome == refreshOutcome(at, rt)
         newAccessToken == generateToken(rt.sub, "access", ACCESS_TOKEN_EXPIRY, now)
         newRefreshToken == generateToken(rt.sub, "refresh", REFRESH_TOKEN_EXPIRY, now)
         req == [NoResp EXCEPT !.op = "refresh", !.hadAccess = (at # NoToken),
                               !.hadRefresh = (rt # NoToken), !.presented = rt,
                               !.msg = outcome, !.status = refreshStatus(outcome)] IN
     IF outcome = "TOKEN_REFRESHED"
       THEN /\ resp' = [req EXCEPT !.uid = rt.sub, !.setAccess = newAccessToken]
            /\ lastAccess' = [lastAccess EXCEPT ![rt.sub] = newAccessToken]
            /\ refreshTokens' = updateRefreshToken(rt.sub, newRefreshToken)
     ELSE /\ resp' = req
          /\ UNCHANGED <<lastAccess, refreshTokens>>
  /\ UNCHANGED <<now, users, procs, hist>>
  /\ UNCHANGED passwordRecovery
  /\ UNCHANGED offset
  /\ UNCHANGED engagement

\* refreshToken: the cookie checks, verifyToken, getRefreshToken and, on a
\* match, a new access token in the accessToken cookie and in the body.
Refresh(at, rt) ==
  /\ LET outcome == refreshOutcome(at, rt)
         newAccessToken == generateToken(rt.sub, "access", ACCESS_TOKEN_EXPIRY, now)
         req == [NoResp EXCEPT !.op = "refresh", !.hadAccess = (at # NoToken),
                               !.hadRefresh = (rt # NoToken), !.presented = rt,
                               !.msg = outcome, !.status = refreshStatus(outcome),
                               !.storeCalls = IF outcome \in {"NO_SNIFFING", "TOKEN_REFRESHED"}
                                                THEN 1 ELSE 0] IN
     IF outcome = "TOKEN_REFRESHED"
       THEN /\ resp' = [req EXCEPT !.uid = rt.sub, !.setAccess = newAccessToken]
            /\ lastAccess' = [lastAccess EXCEPT ![rt.sub] = newAccessToken]
     ELSE /\ resp' = req
          /\ UNCHANGED lastAccess
  /\ UNCHANGED <<now, users, refreshTokens, procs, hist>>
  /\ UNCHANGED passwordRecovery
  /\ UNCHANGED offset
  /\ UNCHANGED engagement

\* -------------------------------------------------------- forgotPassword
PwStep(op, msg, status) == [NoResp EXCEPT !.op = op, !.msg = msg, !.status = status]

\* forgotPassword: validation, findUserByEmailOrUsername, a new token with
\* its expiry saved by saveResetPasswordCode, then the reset-link mail.
ForgotPassword(key, parsedOk, mailOk) ==
  /\ LET found == findUserByEmailOrUsername(key) IN
     IF ~parsedOk
       THEN /\ resp' = PwStep("forgotPassword", "VALIDATION_ERROR", 400)
            /\ UNCHANGED <<passwordRecovery, audit>>
     ELSE IF found = {}
       THEN /\ resp' = [PwStep("forgotPassword", "USER_NOT_FOUND", 401) EXCEPT
                          !.key = key, !.storeCalls = 1]
            /\ UNCHANGED <<passwordRecovery, audit>>
     ELSE \E uid \in found :
       /\ audit[uid].resets < MaxResets
       /\ passwordRecovery' =
            saveResetPasswordCode(uid, NewResetToken(uid),
                                  generateExpirationTime(RESET_EXPIRY_MINUTES))
       /\ audit' = [audit EXCEPT ![uid].resets = @ + 1]
       /\ resp' = IF mailOk
                    THEN [PwStep("forgotPassword", "FORGOT_PASSWORD", 200) EXCEPT
                            !.key = key, !.uid = uid, !.token = NewResetToken(uid),
                            !.storeCalls = 2, !.mail = "reset_link"]
                    ELSE [PwStep("forgotPassword", "MAIL_FAILED", 500) EXCEPT
                            !.key = key, !.uid = uid, !.token = NewResetToken(uid),
                            !.storeCalls = 2]
  /\ UNCHANGED <<now, users, refreshTokens, procs, lastAccess,
                 lastIssued, superseded, raceLosers, loggedOut>>
  /\ UNCHANGED offset
  /\ UNCHANGED engagement

\* --------------------------------------------------------- resetPassword
resetOutcomeNoSameCheck(uid, newPassword) ==
  IF uid \notin Registered THEN "USER_ID_NOT_FOUND"
  ELSE IF ~users[uid].isVerified THEN "ACCOUNT_NOT_VERIFIED"
  ELSE IF getExpiryTime(uid) = NULL THEN "VALIDATION_ERROR"
  ELSE IF minutesDifference(getExpiryTime(uid)) >= RESET_TIMEOUT_MINUTES THEN "TIMEOUT"
  ELSE "PASSWORD_RESET"

\* The branch resetPassword takes up to its password comparison, for the row
\* the token matches.
resetOutcome(uid, newPassword) ==
  IF uid \notin Registered THEN "USER_ID_NOT_FOUND"
  ELSE IF ~users[uid].isVerified THEN "ACCOUNT_NOT_VERIFIED"
  ELSE IF getExpiryTime(uid) = NULL THEN "VALIDATION_ERROR"
  ELSE IF minutesDifference(getExpiryTime(uid)) >= RESET_TIMEOUT_MINUTES THEN "TIMEOUT"
  ELSE IF comparePassword(newPassword, getPasswordbyUserId(uid)) THEN "PASSWORD_SAME"
  ELSE "PASSWORD_RESET"

resetStatus(outcome) ==
  IF outcome = "PASSWORD_RESET" THEN 200
  ELSE IF outcome = "USER_ID_NOT_FOUND" THEN 404
  ELSE IF outcome = "PASSWORD_SAME" THEN 409
  ELSE 403

\* resetPassword: on the success branch updateUserPasswordbyId and
\* clearResetTokenAndExpiry are awaited, then the mail is sent; a failing mail
\* throws into the catch block after both writes.
ResetPassword(token, newPassword, parsedOk, mailOk) ==
  /\ LET tokenData == findUserByResetToken(token)
         req == [NoResp EXCEPT !.op = "resetPassword", !.token = token,
                               !.password = newPassword] IN
     IF ~parsedOk
       THEN /\ resp' = PwStep("resetPassword", "VALIDATION_ERROR", 400)
            /\ UNCHANGED <<users, passwordRecovery, audit>>
     ELSE IF tokenData = {}
       THEN /\ resp' = [req EXCEPT !.msg = "TOKEN_EXPIRED", !.status = 401,
                                   !.storeCalls = 1]
            /\ UNCHANGED <<users, passwordRecovery, audit>>
     ELSE \E uid \in tokenData :
       LET outcome == resetOutcome(uid, newPassword) IN
       IF outcome # "PASSWORD_RESET"
         THEN /\ resp' = [req EXCEPT !.msg = outcome, !.status = resetStatus(outcome),
                                     !.uid = uid]
              /\ UNCHANGED <<users, passwordRecovery, audit>>
       ELSE /\ users' = updateUserPasswordbyId(uid, hashPassword(newPassword))
            /\ passwordRecovery' = clearResetTokenAndExpiry(uid)
            /\ IF mailOk
                 THEN /\ resp' = [req EXCEPT !.msg = outcome, !.status = 200, !.uid = uid,
                                             !.mail = "password_changed"]
                      /\ audit' = [audit EXCEPT ![uid].lastSet = newPassword,
                                                ![uid].resetWrites[token] = @ + 1,
                                                ![uid].resetSuccesses[token] = @ + 1]
               ELSE /\ resp' = [req EXCEPT !.msg = "MAIL_FAILED", !.status = 500,
                                           !.uid = uid]
                    /\ audit' = [audit EXCEPT ![uid].resetWrites[token] = @ + 1]
  /\ UNCHANGED <<now, refreshTokens, procs, lastAccess,
                 lastIssued, superseded, raceLosers, loggedOut>>
  /\ UNCHANGED offset
  /\ UNCHANGED engagement

\* -------------------------------------------------------- changePassword
\* changePassword of the authenticated user: changePasswordbyUserId, then
\* updateLastPasswordChange, then the mail; a throw of either of the last two
\* reaches the catch block after the password has been written.
ChangePasswordRevoking(at, oldPassword, newPassword, parsedOk, mailOk) ==
  /\ Authenticated(at)
  /\ parsedOk /\ mailOk
  /\ comparePassword(oldPassword, getPasswordbyUserId(at.sub))
  /\ ~comparePassword(newPassword, getPasswordbyUserId(at.sub))
  /\ ~updateLastPasswordChangeThrows(at.sub)
  /\ users' = changePasswordbyUserId(at.sub, hashPassword(newPassword))
  /\ passwordRecovery' = updateLastPasswordChange(at.sub)
  /\ refreshTokens' = [refreshTokens EXCEPT ![at.sub] = NoToken]
  /\ audit' = [audit EXCEPT ![at.sub].lastSet = newPassword]
  /\ resp' = [NoResp EXCEPT !.op = "changePassword", !.uid = at.sub,
                            !.hadAccess = TRUE, !.password = newPassword,
                            !.oldPassword = oldPassword, !.msg = "PASSWORD_CHANGED",
                            !.status = 202, !.storeCalls = 3,
                            !.mail = "password_changed"]
  /\ UNCHANGED <<now, procs, lastAccess, lastIssued, superseded, raceLosers,
                 loggedOut, offset>>
  /\ UNCHANGED engagement

isPasswordValidAlways(oldPassword, password) == TRUE

\* changePassword's check of oldPassword against the fetched hash
isPasswordValid(oldPassword, password) == comparePassword(oldPassword, password)

ChangePassword(at, oldPassword, newPassword, parsedOk, mailOk) ==
  /\ Authenticated(at)
  /\ LET uid == at.sub
         password == getPasswordbyUserId(uid)
         req == [NoResp EXCEPT !.op = "changePassword", !.uid = uid,
                               !.hadAccess = TRUE, !.password = newPassword,
                               !.oldPassword = oldPassword] IN
     IF ~parsedOk
       THEN /\ resp' = [req EXCEPT !.msg = "VALIDATION_ERROR", !.status = 400]
            /\ UNCHANGED <<users, passwordRecovery, audit>>
     ELSE IF ~isPasswordValid(oldPassword, password)
       THEN /\ resp' = [req EXCEPT !.msg = "INVALID_CREDENTIALS", !.status = 403,
                                   !.storeCalls = 1]
            /\ UNCHANGED <<users, passwordRecovery, audit>>
     ELSE IF comparePassword(newPassword, password)
       THEN /\ resp' = [req EXCEPT !.msg = "PASSWORD_SAME", !.status = 409,
                                   !.storeCalls = 1]
            /\ UNCHANGED <<users, passwordRecovery, audit>>
     ELSE /\ users' = changePasswordbyUserId(uid, hashPassword(newPassword))
          /\ IF updateLastPasswordChangeThrows(uid)
               THEN /\ resp' = [req EXCEPT !.msg = "RECORD_NOT_FOUND", !.status = 500,
                                           !.storeCalls = 3]
                    /\ UNCHANGED <<passwordRecovery, audit>>
             ELSE /\ passwordRecovery' = updateLastPasswordChange(uid)
                  /\ IF mailOk
                       THEN /\ resp' = [req EXCEPT !.msg = "PASSWORD_CHANGED",
                                                   !.status = 202, !.storeCalls = 3,
                                                   !.mail = "password_changed"]
                            /\ audit' = [audit EXCEPT ![uid].lastSet = newPassword]
                     ELSE /\ resp' = [req EXCEPT !.msg = "MAIL_FAILED", !.status = 500,
                                                 !.storeCalls = 3]
                          /\ UNCHANGED audit
  /\ UNCHANGED <<now, refreshTokens, procs, lastAccess,
                 lastIssued, superseded, raceLosers, loggedOut>>
  /\ UNCHANGED offset
  /\ UNCHANGED engagement

\* ------------------------------------------ resetPassword, store call by
\* store call: the handler awaits each call, and other requests run between
\* two of its calls.
ResetStep(p, msg) ==
  [NoResp EXCEPT !.op = "resetPassword", !.msg = msg, !.token = procs[p].body.token,
                 !.password = procs[p].body.password, !.uid = procs[p].uid]

\* findUserByResetToken and its check
ResetFind(p, token, newPassword) ==
  /\ procs[p].pc = "idle"
  /\ LET tokenData == findUserByResetToken(token)
         req == [NoResp EXCEPT !.op = "resetPassword", !.token = token,
                               !.password = newPassword, !.storeCalls = 1] IN
     IF tokenData = {}
       THEN /\ resp' = [req EXCEPT !.msg = "TOKEN_EXPIRED", !.status = 401]
            /\ UNCHANGED procs
     ELSE \E uid \in tokenData :
       /\ procs' = [procs EXCEPT ![p].pc = "reset_user", ![p].uid = uid,
                                 ![p].body.token = token,
                                 ![p].body.password = newPassword]
       /\ resp' = [req EXCEPT !.msg = "found", !.uid = uid]
  /\ UNCHANGED <<now, users, refreshTokens, lastAccess, hist>>
  /\ UNCHANGED passwordRecovery
  /\ UNCHANGED offset
  /\ UNCHANGED engagement

\* findUserById and the checks of the user and of its verification
ResetUser(p) ==
  /\ procs[p].pc = "reset_user"
  /\ LET uid == procs[p].uid IN
     IF uid \notin Registered
       THEN /\ resp' = [ResetStep(p, "USER_ID_NOT_FOUND") EXCEPT !.status = 404]
            /\ procs' = AnotherIdle(p)
     ELSE IF ~users[uid].isVerified
       THEN /\ resp' = [ResetStep(p, "ACCOUNT_NOT_VERIFIED") EXCEPT !.status = 403]
            /\ procs' = AnotherIdle(p)
     ELSE /\ resp' = ResetStep(p, "user")
          /\ procs' = [procs EXCEPT ![p].pc = "reset_expiry"]
  /\ UNCHANGED <<now, users, refreshTokens, lastAccess, hist>>
  /\ UNCHANGED passwordRecovery
  /\ UNCHANGED offset
  /\ UNCHANGED engagement

\* getExpiryTime and the expiry check
ResetExpiry(p) ==
  /\ procs[p].pc = "reset_expiry"
  /\ LET uid == procs[p].uid IN
     IF getExpiryTime(uid) = NULL
       THEN /\ resp' = [ResetStep(p, "VALIDATION_ERROR") EXCEPT !.status = 403]
            /\ procs' = AnotherIdle(p)
     ELSE IF minutesDifference(getExpiryTime(uid)) >= RESET_TIMEOUT_MINUTES
       THEN /\ resp' = [ResetStep(p, "TIMEOUT") EXCEPT !.status = 403]
            /\ procs' = AnotherIdle(p)
     ELSE /\ resp' = ResetStep(p, "expiry")
          /\ procs' = [procs EXCEPT ![p].pc = "reset_compare"]
  /\ UNCHANGED <<now, users, refreshTokens, lastAccess, hist>>
  /\ UNCHANGED passwordRecovery
  /\ UNCHANGED offset
  /\ UNCHANGED engagement

\* getPasswordbyUserId and the comparison with the new password
ResetCompare(p) ==
  /\ procs[p].pc = "reset_compare"
  /\ LET uid == procs[p].uid IN
     IF comparePassword(procs[p].body.password, getPasswordbyUserId(uid))
       THEN /\ resp' = [ResetStep(p, "PASSWORD_SAME") EXCEPT !.status = 409]
            /\ procs' = AnotherIdle(p)
     ELSE /\ resp' = ResetStep(p, "compare")
          /\ procs' = [procs EXCEPT ![p].pc = "reset_write"]
  /\ UNCHANGED <<now, users, refreshTokens, lastAccess, hist>>
  /\ UNCHANGED passwordRecovery
  /\ UNCHANGED offset
  /\ UNCHANGED engagement

\* updateUserPasswordbyId
ResetWrite(p) ==
  /\ procs[p].pc = "reset_write"
  /\ LET uid == procs[p].uid IN
     /\ users' = updateUserPasswordbyId(uid, hashPassword(procs[p].body.password))
     /\ audit' = [audit EXCEPT ![uid].resetWrites[procs[p].body.token] = @ + 1]
  /\ resp' = [ResetStep(p, "password_write") EXCEPT !.storeCalls = 1]
  /\ procs' = [procs EXCEPT ![p].pc = "reset_clear"]
  /\ UNCHANGED <<now, refreshTokens, lastAccess,
                 lastIssued, superseded, raceLosers, loggedOut>>
  /\ UNCHANGED passwordRecovery
  /\ UNCHANGED offset
  /\ UNCHANGED engagement

\* clearResetTokenAndExpiry
ResetClear(p) ==
  /\ procs[p].pc = "reset_clear"
  /\ passwordRecovery' = clearResetTokenAndExpiry(procs[p].uid)
  /\ resp' = [ResetStep(p, "token_clear") EXCEPT !.storeCalls = 1]
  /\ procs' = [procs EXCEPT ![p].pc = "reset_mail"]
  /\ UNCHANGED <<now, users, refreshTokens, lastAccess, hist>>
  /\ UNCHANGED offset
  /\ UNCHANGED engagement

\* sendPasswordChangeEmail and the response
ResetMail(p, ok) ==
  /\ procs[p].pc = "reset_mail"
  /\ LET uid == procs[p].uid IN
     IF ok
       THEN /\ resp' = [ResetStep(p, "PASSWORD_RESET") EXCEPT
                          !.status = 200, !.mail = "password_changed"]
            /\ audit' = [audit EXCEPT
                           ![uid].lastSet = procs[p].body.password,
                           ![uid].resetSuccesses[procs[p].body.token] = @ + 1]
     ELSE /\ resp' = [ResetStep(p, "MAIL_FAILED") EXCEPT !.status = 500]
          /\ UNCHANGED audit
  /\ procs' = AnotherIdle(p)
  /\ UNCHANGED <<now, users, refreshTokens, lastAccess,
                 lastIssued, superseded, raceLosers, loggedOut>>
  /\ UNCHANGED passwordRecovery
  /\ UNCHANGED offset
  /\ UNCHANGED engagement

\* ------------------------------------------------- likes and saves
\* The store calls of the blog services the handlers use.
findUserById(id) == {u \in Registered : u = id}

findBlogbyId(blogId) == {b \in 1..posts : b = blogId}

\* prisma.post.create: the new post gets the next id
createBlog == posts + 1

checkBlogAlreadyLiked(userId, blogId) == likedPosts[<<userId, blogId>>] > 0

likeBlogbyId(userId, blogId) == [likedPosts EXCEPT ![<<userId, blogId>>] = @ + 1]

unlikeBlogbyId(userId, blogId) == [likedPosts EXCEPT ![<<userId, blogId>>] = @ - 1]

checkBlogAlreadySaved(userId, blogId) == savedPosts[<<userId, blogId>>] > 0

saveBlogbyId(userId, blogId) == [savedPosts EXCEPT ![<<userId, blogId>>] = @ + 1]

unsaveBlogbyId(userId, blogId) == [savedPosts EXCEPT ![<<userId, blogId>>] = @ - 1]

BlogStep(op, userId, blogId) ==
  [NoResp EXCEPT !.op = op, !.uid = userId, !.blogId = blogId]

\* The other tables of the user controller and the clock stay as they are.
BlogFrame ==
  UNCHANGED <<now, offset, users, refreshTokens, procs, lastAccess, hist,
              passwordRecovery>>

\* An admin creates a post.
CreateBlog ==
  /\ posts < MaxBlogs
  /\ posts' = createBlog
  /\ resp' = [NoResp EXCEPT !.op = "createBlog", !.blogId = createBlog]
  /\ UNCHANGED <<likedPosts, savedPosts, comments>>
  /\ BlogFrame

\* The checks like, unlike, save and unsave make before they look for the
\* row of the pair: findUserById, then findBlogbyId.
userAndBlogOutcomeNoBlogCheck(userId, blogId) ==
  IF findUserById(userId) = {} THEN "USER_NOT_FOUND" ELSE "found"

userAndBlogOutcome(userId, blogId) ==
  IF findUserById(userId) = {} THEN "USER_NOT_FOUND"
  ELSE IF findBlogbyId(blogId) = {} THEN "ENTITY_NOT_FOUND_Blog"
  ELSE "found"

isAlreadyLikedNever(userId, blogId) == FALSE

isAlreadyLiked(userId, blogId) == checkBlogAlreadyLiked(userId, blogId)

like(userId, blogId) ==
  /\ LET req == BlogStep("like", userId, blogId)
         outcome == userAndBlogOutcome(userId, blogId) IN
     IF outcome # "found"
       THEN /\ resp' = [req EXCEPT !.msg = outcome, !.status = 404]
            /\ UNCHANGED likedPosts
     ELSE IF isAlreadyLiked(userId, blogId)
       THEN /\ resp' = [req EXCEPT !.msg = "ENTITY_EXISTS_Like", !.status = 403]
            /\ UNCHANGED likedPosts
     ELSE /\ likedPosts' = likeBlogbyId(userId, blogId)
          /\ resp' = [req EXCEPT !.msg = "Blog liked", !.status = 200]
  /\ UNCHANGED <<posts, savedPosts, comments>>
  /\ BlogFrame

isLikedAlways(userId, blogId) == TRUE

\* unlike's check that the user has a like on the post
isLiked(userId, blogId) == checkBlogAlreadyLiked(userId, blogId)

unlike(userId, blogId) ==
  /\ LET req == BlogStep("unlike", userId, blogId)
         outcome == userAndBlogOutcome(userId, blogId) IN
     IF outcome # "found"
       THEN /\ resp' = [req EXCEPT !.msg = outcome, !.status = 404]
            /\ UNCHANGED likedPosts
     ELSE IF ~isLiked(userId, blogId)
       THEN /\ resp' = [req EXCEPT !.msg = "ENTITY_NOT_FOUND_Like", !.status = 403]
            /\ UNCHANGED likedPosts
     ELSE /\ likedPosts' = unlikeBlogbyId(userId, blogId)
          /\ resp' = [req EXCEPT !.msg = "Blog unliked", !.status = 200]
  /\ UNCHANGED <<posts, savedPosts, comments>>
  /\ BlogFrame

save(userId, blogId) ==
  /\ LET req == BlogStep("save", userId, blogId)
         outcome == userAndBlogOutcome(userId, blogId) IN
     IF outcome # "found"
       THEN /\ resp' = [req EXCEPT !.msg = outcome, !.status = 404]
            /\ UNCHANGED savedPosts
     ELSE IF checkBlogAlreadySaved(userId, blogId)
       THEN /\ resp' = [req EXCEPT !.msg = "ENTITY_EXISTS_Save", !.status = 403]
            /\ UNCHANGED savedPosts
     ELSE /\ savedPosts' = saveBlogbyId(userId, blogId)
          /\ resp' = [req EXCEPT !.msg = "Blog saved", !.status = 200]
  /\ UNCHANGED <<posts, likedPosts, comments>>
  /\ BlogFrame

unsave(userId, blogId) ==
  /\ LET req == BlogStep("unsave", userId, blogId)
         outcome == userAndBlogOutcome(userId, blogId) IN
     IF outcome # "found"
       THEN /\ resp' = [req EXCEPT !.msg = outcome, !.status = 404]
            /\ UNCHANGED savedPosts
     ELSE IF ~checkBlogAlreadySaved(userId, blogId)
       THEN /\ resp' = [req EXCEPT !.msg = "ENTITY_NOT_FOUND_Save", !.status = 403]
            /\ UNCHANGED savedPosts
     ELSE /\ savedPosts' = unsaveBlogbyId(userId, blogId)
          /\ resp' = [req EXCEPT !.msg = "Blog unsaved", !.status = 200]
  /\ UNCHANGED <<posts, likedPosts, comments>>
  /\ BlogFrame

\* ---------------------------------------------------------- comments
\* The comment rows that have not been deleted.
LiveComments == {c \in 1..Len(comments) : comments[c].exists}

checkBlogAlreadyCommented(userId, blogId) ==
  \E c \in LiveComments : comments[c].owner = userId /\ comments[c].blogId = blogId

\* the new row gets the next commentId
commentBlogbyId(userId, blogId, text) ==
  Append(comments, [owner |-> userId, blogId |-> blogId, text |-> text, exists |-> TRUE])

\* the comment with this id written by this user
findCommentbyId(userId, commentId) ==
  {c \in LiveComments : c = commentId /\ comments[c].owner = userId}

uncommentBlogbyId(userId, commentId) == [comments EXCEPT ![commentId].exists = FALSE]

editCommentText(commentId, text) == [comments EXCEPT ![commentId].text = text]

CommentStep(op, userId, blogId, commentId, text) ==
  [NoResp EXCEPT !.op = op, !.uid = userId, !.blogId = blogId,
                 !.commentId = commentId, !.text = text]

isAlreadyCommentedNever(userId, blogId) == FALSE

isAlreadyCommented(userId, blogId) == checkBlogAlreadyCommented(userId, blogId)

comment(userId, blogId, text, parsedOk) ==
  /\ LET req == CommentStep("comment", userId, blogId, 0, text)
         outcome == userAndBlogOutcome(userId, blogId) IN
     IF ~parsedOk
       THEN /\ resp' = [req EXCEPT !.msg = "VALIDATION_ERROR", !.status = 400]
            /\ UNCHANGED comments
     ELSE IF outcome # "found"
       THEN /\ resp' = [req EXCEPT !.msg = outcome, !.status = 404]
            /\ UNCHANGED comments
     ELSE IF isAlreadyCommented(userId, blogId)
       THEN /\ resp' = [req EXCEPT !.msg = "ENTITY_EXISTS_Comment", !.status = 403]
            /\ UNCHANGED comments
     ELSE /\ Len(comments) < MaxComments
          /\ comments' = commentBlogbyId(userId, blogId, text)
          /\ resp' = [req EXCEPT !.msg = "Blog commented", !.status = 200,
                                 !.commentId = Len(comments) + 1]
  /\ UNCHANGED <<posts, likedPosts, savedPosts>>
  /\ BlogFrame

isTrueCommentAlways(userId, commentId) == TRUE

\* uncomment's and editComment's check that the user owns the comment
isTrueComment(userId, commentId) == findCommentbyId(userId, commentId) # {}

uncomment(userId, commentId) ==
  /\ LET req == CommentStep("uncomment", userId, 0, commentId, "") IN
     IF findUserById(userId) = {}
       THEN /\ resp' = [req EXCEPT !.msg = "USER_NOT_FOUND", !.status = 404]
            /\ UNCHANGED comments
     ELSE IF ~isTrueComment(userId, commentId)
       THEN /\ resp' = [req EXCEPT !.msg = "ENTITY_NOT_FOUND_Comment", !.status = 403]
            /\ UNCHANGED comments
     ELSE /\ comments' = uncommentBlogbyId(userId, commentId)
          /\ resp' = [req EXCEPT !.msg = "Blog uncommented", !.status = 200]
  /\ UNCHANGED <<posts, likedPosts, savedPosts>>
  /\ BlogFrame

editComment(userId, commentId, text, parsedOk) ==
  /\ LET req == CommentStep("editComment", userId, 0, commentId, text) IN
     IF ~parsedOk
       THEN /\ resp' = [req EXCEPT !.msg = "VALIDATION_ERROR", !.status = 400]
            /\ UNCHANGED comments
     ELSE IF findUserById(userId) = {}
       THEN /\ resp' = [req EXCEPT !.msg = "USER_NOT_FOUND", !.status = 404]
            /\ UNCHANGED comments
     ELSE IF ~isTrueComment(userId, commentId)
       THEN /\ resp' = [req EXCEPT !.msg = "ENTITY_NOT_FOUND_Comment", !.status = 403]
            /\ UNCHANGED comments
     ELSE /\ comments' = editCommentText(commentId, text)
          /\ resp' = [req EXCEPT !.msg = "Comment edited", !.status = 200]
  /\ UNCHANGED <<posts, likedPosts, savedPosts>>
  /\ BlogFrame

\* --------------------------------------------------------- specification
\* Requests arrive one login at a time (slot "r1"); every other handler may
\* run between the store calls of that login.
Next ==
  \/ Tick
  \/ \E i \in UserIds, c \in Codes, ok \in BOOLEAN :
       Register(<<"email", i>>, <<"username", i>>, "pw1", c, ok)
  \/ \E t \in UserIds, c \in Codes, ok \in BOOLEAN : Confirmation(t, c, ok)
  \/ \E k \in Emails \cup Usernames \cup {UnknownKey}, pw \in Passwords, ok \in BOOLEAN :
       LoginFind("r1", k, pw, ok)
  \/ LoginStamp("r1")
  \/ LoginUpsert("r1")
  \/ \E at \in Cookies, rt \in Cookies : Logout(at, rt)
  \/ \E at \in Cookies, rt \in Cookies : Refresh(at, rt)

Spec == Init /\ [][Next]_vars

\* Logins in every slot: the store calls of concurrent logins interleave.
NextRace ==
  \/ Tick
  \/ \E i \in UserIds, c \in Codes : Register(<<"email", i>>, <<"username", i>>, "pw1", c, TRUE)
  \/ \E t \in UserIds, c \in Codes : Confirmation(t, c, TRUE)
  \/ \E p \in Procs, k \in Emails, pw \in Passwords : LoginFind(p, k, pw, TRUE)
  \/ \E p \in Procs : LoginStamp(p)
  \/ \E p \in Procs : LoginUpsert(p)
  \/ \E at \in Cookies, rt \in Cookies : Logout(at, rt)
  \/ \E rt \in Cookies : Refresh(NoToken, rt)

SpecRace == Init /\ [][NextRace]_vars

\* Registrations in every slot, interleaved at their store calls and at the
\* mail send.
NextRegister ==
  \/ \E p \in Procs, e \in AccountEmails, n \in AccountUsernames, c \in AccountCodes :
       RegFindEmail(p, e, n, "pw1", c)
  \/ \E p \in Procs : RegFindUsername(p)
  \/ \E p \in Procs, ok \in BOOLEAN : RegMail(p, ok)
  \/ \E p \in Procs : RegCreate(p)

SpecRegister == Init /\ [][NextRegister]_vars

\* Confirmations in every slot, interleaved at their store calls and at the
\* mail send, over accounts registered one at a time.
NextConfirm ==
  \/ Tick
  \/ \E e \in AccountEmails, n \in AccountUsernames, c \in AccountCodes :
       RegFindEmail("r1", e, n, "pw1", c)
  \/ RegFindUsername("r1")
  \/ RegMail("r1", TRUE)
  \/ RegCreate("r1")
  \/ \E p \in Procs, t \in ConfirmTokens, c \in AccountCodes : ConfFind(p, t, c)
  \/ \E p \in Procs : ConfWrite(p)
  \/ \E p \in Procs, ok \in BOOLEAN : ConfMail(p, ok)

SpecConfirm == Init /\ [][NextConfirm]_vars

\* The password handlers over accounts that register, confirm and log in one
\* request at a time.
NextPassword ==
  \/ Tick
  \/ \E i \in UserIds, c \in Codes : Register(<<"email", i>>, <<"username", i>>, "pw1", c, TRUE)
  \/ \E t \in UserIds, c \in Codes : Confirmation(t, c, TRUE)
  \/ \E k \in Emails, pw \in Passwords : LoginFind("r1", k, pw, TRUE)
  \/ LoginStamp("r1")
  \/ LoginUpsert("r1")
  \/ \E k \in Emails \cup {UnknownKey}, ok \in BOOLEAN, mailOk \in BOOLEAN :
       ForgotPassword(k, ok, mailOk)
  \/ \E t \in ResetTokens \cup {UnknownResetToken}, pw \in Passwords,
        ok \in BOOLEAN, mailOk \in BOOLEAN : ResetPassword(t, pw, ok, mailOk)
  \/ \E at \in Cookies, old \in Passwords, new \in Passwords,
        ok \in BOOLEAN, mailOk \in BOOLEAN : ChangePassword(at, old, new, ok, mailOk)

SpecPassword == Init /\ [][NextPassword]_vars

\* Password recovery on a wall clock read at the resolution of the expiry
\* check, over accounts that register and confirm one request at a time.
NextRecovery ==
  \/ Tick
  \/ SubTick
  \/ \E i \in UserIds, c \in Codes : Register(<<"email", i>>, <<"username", i>>, "pw1", c, TRUE)
  \/ \E t \in UserIds, c \in Codes : Confirmation(t, c, TRUE)
  \/ \E k \in Emails \cup {UnknownKey}, ok \in BOOLEAN, mailOk \in BOOLEAN :
       ForgotPassword(k, ok, mailOk)
  \/ \E t \in ResetTokens \cup {UnknownResetToken}, pw \in Passwords,
        ok \in BOOLEAN, mailOk \in BOOLEAN : ResetPassword(t, pw, ok, mailOk)

SpecRecovery == Init /\ [][NextRecovery]_vars

\* resetPassword requests in every slot, interleaved at their store calls and
\* at the mail send, over accounts that register, confirm and ask for a reset
\* token one request at a time.
NextResetRace ==
  \/ Tick
  \/ \E i \in UserIds, c \in Codes : Register(<<"email", i>>, <<"username", i>>, "pw1", c, TRUE)
  \/ \E t \in UserIds, c \in Codes : Confirmation(t, c, TRUE)
  \/ \E k \in Emails : ForgotPassword(k, TRUE, TRUE)
  \/ \E p \in Procs, t \in ResetTokens, pw \in Passwords : ResetFind(p, t, pw)
  \/ \E p \in Procs : ResetUser(p)
  \/ \E p \in Procs : ResetExpiry(p)
  \/ \E p \in Procs : ResetCompare(p)
  \/ \E p \in Procs : ResetWrite(p)
  \/ \E p \in Procs : ResetClear(p)
  \/ \E p \in Procs, ok \in BOOLEAN : ResetMail(p, ok)

SpecResetRace == Init /\ [][NextResetRace]_vars

\* Sessions and password changes together: login in one slot, logout, refresh
\* without access-token cookie, and the password handlers, all with mail
\* delivered.
NextSession ==
  \/ Tick
  \/ \E i \in UserIds, c \in Codes : Register(<<"email", i>>, <<"username", i>>, "pw1", c, TRUE)
  \/ \E t \in UserIds, c \in Codes : Confirmation(t, c, TRUE)
  \/ \E k \in Emails, pw \in Passwords : LoginFind("r1", k, pw, TRUE)
  \/ LoginStamp("r1")
  \/ LoginUpsert("r1")
  \/ \E rt \in Cookies : Refresh(NoToken, rt)
  \/ \E at \in Cookies, rt \in Cookies : Logout(at, rt)
  \/ \E k \in Emails : ForgotPassword(k, TRUE, TRUE)
  \/ \E t \in ResetTokens, pw \in Passwords : ResetPassword(t, pw, TRUE, TRUE)
  \/ \E at \in Cookies, old \in Passwords, new \in Passwords :
       ChangePassword(at, old, new, TRUE, TRUE)

SpecSession == Init /\ [][NextSession]_vars

\* Likes and saves of the registered users on the posts, one request at a
\* time; users register through slot "r1".
NextLikes ==
  \/ \E e \in AccountEmails, n \in AccountUsernames : RegFindEmail("r1", e, n, "pw1", "111111")
  \/ RegFindUsername("r1")
  \/ RegMail("r1", TRUE)
  \/ RegCreate("r1")
  \/ CreateBlog
  \/ \E u \in AccountIds, b \in 1..MissingBlog : like(u, b)
  \/ \E u \in AccountIds, b \in 1..MissingBlog : unlike(u, b)
  \/ \E u \in AccountIds, b \in 1..MissingBlog : save(u, b)
  \/ \E u \in AccountIds, b \in 1..MissingBlog : unsave(u, b)

SpecLikes == Init /\ [][NextLikes]_vars

\* Comments of the registered users on the posts, one request at a time;
\* users register through slot "r1".
NextComments ==
  \/ \E e \in AccountEmails, n \in AccountUsernames : RegFindEmail("r1", e, n, "pw1", "111111")
  \/ RegFindUsername("r1")
  \/ RegMail("r1", TRUE)
  \/ RegCreate("r1")
  \/ CreateBlog
  \/ \E u \in AccountIds, b \in 1..MissingBlog, t \in Texts, ok \in BOOLEAN :
       comment(u, b, t, ok)
  \/ \E u \in AccountIds, c \in 1..(MaxComments + 1) : uncomment(u, c)
  \/ \E u \in AccountIds, c \in 1..(MaxComments + 1), t \in Texts, ok \in BOOLEAN :
       editComment(u, c, t, ok)

SpecComments == Init /\ [][NextComments]_vars

\* ----------------------------------------------------------------- claims
Subject(tok) == tok.sub

\* C1: a refresh request without access-token cookie is answered with a new
\* access token only if the presented refresh token equals the token stored
\* for its subject at the moment of the check; a token that verifies but has
\* no stored record, or a different one, is answered ReplayDetected (401) and
\* no access token is issued.
C1_RefreshOnlyIfStored ==
  (resp.op = "refresh" /\ ~resp.hadAccess /\ resp.hadRefresh) =>
     /\ resp.status = 200 =>
          /\ refreshTokens[Subject(resp.presented)] = resp.presented
          /\ resp.setAccess # NoToken
     /\ resp.status # 200 => resp.setAccess = NoToken
     /\ ( /\ verifyToken(resp.presented, "refresh", now) = "ok"
          /\ refreshTokens[Subject(resp.presented)] # resp.presented )
        => (resp.status = 401 /\ resp.msg = "NO_SNIFFING" /\ resp.setAccess = NoToken)

\* a verifying token was refused because another token is stored for its user
C1_Witness ==
  /\ resp.op = "refresh" /\ ~resp.hadAccess
  /\ resp.msg = "NO_SNIFFING"
  /\ verifyToken(resp.presented, "refresh", now) = "ok"
  /\ refreshTokens[Subject(resp.presented)] # NoToken

\* C2: once a user has logged in twice in sequence, a refresh presenting the
\* refresh token of the earlier login is answered ReplayDetected and issues
\* no access token, whatever the time between the two logins.
C2_FirstLoginTokenRejected ==
  \A u \in UserIds :
    (resp.op = "refresh" /\ ~resp.hadAccess /\ resp.presented \in superseded[u]) =>
      (resp.status = 401 /\ resp.msg = "NO_SNIFFING" /\ resp.setAccess = NoToken)

\* C3: right after a login answers success, the RefreshToken row of its user
\* holds the refresh token of that response, also when an earlier login had
\* stored another token.
C3_StoredIsIssued ==
  (resp.op = "login" /\ resp.status = 200) =>
     /\ resp.setRefresh # NoToken
     /\ refreshTokens[resp.uid] = resp.setRefresh

\* a second login replaced the token of the first by a different one
C3_Witness ==
  /\ resp.op = "login" /\ resp.status = 200
  /\ superseded[resp.uid] # {}
  /\ resp.setRefresh \notin superseded[resp.uid]
  /\ refreshTokens[resp.uid] = resp.setRefresh

\* C4: when two logins of one user overlap, the login whose upsert comes last
\* leaves its token stored, and a refresh presenting the token of the other
\* login is answered ReplayDetected.
C4_RaceLoserRejected ==
  /\ (resp.op = "login" /\ resp.status = 200) => refreshTokens[resp.uid] = resp.setRefresh
  /\ \A u \in UserIds :
       (resp.op = "refresh" /\ ~resp.hadAccess /\ resp.presented \in raceLosers[u]) =>
         (resp.status = 401 /\ resp.msg = "NO_SNIFFING" /\ resp.setAccess = NoToken)

\* C5: every user that holds a RefreshToken row, or for whom a session token
\* was signed, is a registered user whose account is verified.
C5_SessionsOnlyForVerified ==
  /\ \A u \in UserIds :
       (refreshTokens[u] # NoToken \/ lastAccess[u] # NoToken \/ lastIssued[u] # NoToken)
         => (u \in Registered /\ users[u].isVerified)
  /\ \A p \in Procs :
       procs[p].pc # "idle" => (procs[p].uid \in Registered /\ users[procs[p].uid].isVerified)
  /\ resp.setAccess # NoToken =>
       (Subject(resp.setAccess) \in Registered /\ users[Subject(resp.setAccess)].isVerified)

\* the login of a registered but unverified account with its right password
\* was refused and left the account without a RefreshToken row
C5_Witness ==
  /\ resp.op = "login" /\ resp.status = 401
  /\ \E u \in Registered :
       /\ users[u].email = resp.key
       /\ ~users[u].isVerified
       /\ users[u].password = hashPassword(resp.password)
       /\ refreshTokens[u] = NoToken

\* C6: a well-formed login whose identifier matches no verified account, or
\* whose password is not the one of the verified account it matches, is
\* answered InvalidCredentials (401); it sets no cookie, leaves the
\* RefreshToken rows as they were and stamps no last-login.
BadCredentials ==
  /\ resp.op = "login" /\ resp.key # NoResp.key
  /\ \A u \in Registered :
       ((users[u].email = resp.key \/ users[u].username = resp.key) /\ users[u].isVerified)
         => users[u].password # hashPassword(resp.password)

C6_InvalidCredentialsUniform ==
  [][ BadCredentials' =>
        /\ resp'.status = 401 /\ resp'.msg = "INVALID_CREDENTIALS"
        /\ resp'.setAccess = NoToken /\ resp'.setRefresh = NoToken
        /\ refreshTokens' = refreshTokens
        /\ users' = users
        /\ lastAccess' = lastAccess
        /\ procs' = procs ]_vars

\* a verified account was refused for a wrong password
C6_Witness ==
  /\ resp.op = "login" /\ resp.status = 401 /\ resp.uid # 0
  /\ users[resp.uid].isVerified
  /\ users[resp.uid].password # hashPassword(resp.password)

\* C7: after a logout of user u has completed, no refresh is answered with an
\* access token for u until u logs in again, whether or not the logout
\* request carried the refresh-token cookie.
C7_NoRefreshAfterLogout ==
  \A u \in UserIds :
    (resp.op = "refresh" /\ resp.status = 200 /\ resp.uid = u) => ~loggedOut[u]

\* C8: every logout of an authenticated user ends with a success response,
\* also when the user has no RefreshToken row (a second logout in a row).
C8_LogoutAlwaysSucceeds ==
  resp.op = "logout" => resp.status = 200

\* C9: every logout of an authenticated user clears the accessToken and the
\* refreshToken cookie, in every outcome.
C9_LogoutClearsCookies ==
  resp.op = "logout" => resp.cleared

\* C10: a refresh request that carries an access-token cookie is answered
\* AccessDenied (403) whatever its refresh-token cookie is, without a store
\* call and without a new access token.
C10_AccessCookieDenied ==
  (resp.op = "refresh" /\ resp.hadAccess) =>
     /\ resp.status = 403 /\ resp.msg = "ACCESS_DENIED"
     /\ resp.storeCalls = 0
     /\ resp.setAccess = NoToken

\* the refused request carried the refresh token that is stored and valid
C10_Witness ==
  /\ resp.op = "refresh" /\ resp.hadAccess /\ resp.status = 403
  /\ verifyToken(resp.presented, "refresh", now) = "ok"
  /\ refreshTokens[Subject(resp.presented)] = resp.presented

\* C11 (as stated): a refresh without access-token cookie that presents the
\* token stored for its user is answered with a new access token, as long as
\* no login or logout has changed the stored record.
C11_StoredTokenAlwaysAccepted ==
  ( /\ resp.op = "refresh" /\ ~resp.hadAccess /\ resp.presented # NoToken
    /\ Subject(resp.presented) \in UserIds
    /\ refreshTokens[Subject(resp.presented)] = resp.presented )
  => resp.status = 200

\* C11 (amended): a successful refresh sets a new access token only and
\* leaves every RefreshToken row as it was; a refresh without access-token
\* cookie that presents the stored token of its user is accepted whenever
\* that token has not expired.
C11_RefreshDoesNotRotate ==
  /\ []( ( /\ resp.op = "refresh" /\ ~resp.hadAccess /\ resp.presented # NoToken
           /\ Subject(resp.presented) \in UserIds
           /\ refreshTokens[Subject(resp.presented)] = resp.presented
           /\ verifyToken(resp.presented, "refresh", now) = "ok" )
         => resp.status = 200 )
  /\ [][ (resp'.op = "refresh" /\ resp'.status = 200) =>
           /\ refreshTokens' = refreshTokens
           /\ resp'.setRefresh = NoToken
           /\ resp'.setAccess = generateToken(resp'.uid, "access", ACCESS_TOKEN_EXPIRY, now) ]_vars

\* a refresh at a time after the login that issued the token was accepted
\* and the row still holds that token
C11_Witness ==
  /\ resp.op = "refresh" /\ resp.status = 200
  /\ now > resp.presented.iat
  /\ refreshTokens[resp.uid] = resp.presented

\* C12: a refresh without access-token cookie whose refresh-token cookie
\* holds a token signed with the access secret is answered TokenInvalid (401)
\* and sets no access token.
C12_AccessTokenNotARefreshToken ==
  (resp.op = "refresh" /\ ~resp.hadAccess /\ resp.presented.secret = "access") =>
     /\ resp.status = 401 /\ resp.msg = "TOKEN_INVALID"
     /\ resp.setAccess = NoToken

\* the presented token was the valid access token of a user that holds a
\* RefreshToken row
C12_Witness ==
  /\ resp.op = "refresh" /\ ~resp.hadAccess
  /\ resp.presented.secret = "access"
  /\ verifyToken(resp.presented, "access", now) = "ok"
  /\ refreshTokens[Subject(resp.presented)] # NoToken

\* C19: the user object in the response body of register, confirmation and
\* login never carries the password column of the User row.
C19_NoPasswordReturned ==
  resp.op \in {"register", "confirmation", "login"} =>
    resp.returned.password = NoPassword

\* C13: no two User rows share an email and no two share a username, also
\* when registrations with the same email or username interleave between
\* their lookups and their createUser.
C13_UniqueEmailAndUsername ==
  \A u \in Registered : \A v \in Registered :
    u # v => (users[u].email # users[v].email /\ users[u].username # users[v].username)

\* a registration that had passed both lookups was refused at createUser
\* because a concurrent registration had created a row with its email
C13_Witness ==
  /\ resp.op = "register" /\ resp.msg = "UNIQUE_CONSTRAINT_FAILED"
  /\ \E u \in Registered : users[u].email = resp.key

\* a step of a request that ends it without effect: no row written, no mail
\* sent, no slot moved forward
EndsWithoutEffect ==
  /\ users' = users
  /\ audit' = audit
  /\ resp'.mail = "none"
  /\ \A p \in Procs : procs'[p] = procs[p] \/ procs'[p] = Idle

\* C14: a registration whose email is registered when it is looked up is
\* answered EntityExists, one that passed this lookup and whose username is
\* registered is answered UsernameTaken; neither creates a row nor sends the
\* verification mail.
C14_DuplicateRejected ==
  [][ /\ ( /\ resp'.op = "register" /\ resp'.msg \in {"ENTITY_EXISTS", "email_free"}
           /\ \E u \in Registered : users[u].email = resp'.key )
         => (resp'.status = 400 /\ resp'.msg = "ENTITY_EXISTS" /\ EndsWithoutEffect)
      /\ ( /\ resp'.op = "register" /\ resp'.msg \in {"USERNAME_TAKEN", "username_free"}
           /\ \E u \in Registered : users[u].username = resp'.username )
         => (resp'.status = 400 /\ resp'.msg = "USERNAME_TAKEN" /\ EndsWithoutEffect)
    ]_vars

\* a registration with an email nobody holds and the username of an existing
\* account was refused
C14_Witness ==
  /\ resp.op = "register" /\ resp.msg = "USERNAME_TAKEN"
  /\ \A u \in Registered : users[u].email # resp.key
  /\ \E u \in Registered : users[u].username = resp.username

\* C15: createUser runs only in a registration whose verification mail has
\* been sent; a registration whose mail send fails is answered 500 and ends
\* there, so that it writes no User row.
C15_MailBeforePersist ==
  /\ [](\A p \in Procs : procs[p].pc = "reg_create" => procs[p].body.mailed)
  /\ []((resp.op = "register" /\ resp.status = 201) => resp.mail = "verification")
  /\ [][ (resp'.op = "register" /\ resp'.msg = "MAIL_FAILED") =>
           /\ resp'.status = 500
           /\ users' = users
           /\ \A p \in Procs : procs'[p] = procs[p] \/ procs'[p] = Idle ]_vars

\* the mail of a registration failed and no row holds its email
C15_Witness ==
  /\ resp.op = "register" /\ resp.msg = "MAIL_FAILED"
  /\ \A u \in Registered : users[u].email # resp.key
  /\ \A p \in Procs : procs[p].pc = "idle"

\* C16: for every account the confirm write is performed at most once and
\* the confirmation mail is sent at most once, whatever the interleaving of
\* confirmation requests.
C16_ConfirmedOnce ==
  \A u \in Registered : audit[u].confirmWrites <= 1 /\ audit[u].confirmMails <= 1

\* the lookup step of a confirmation request and its outcome
ConfLookup == {"INVALID_TOKEN_CODE", "ACCOUNT_ALREADY_VERIFIED", "found"}

\* C17: a confirmation whose (token, code) pair is the pair of an account
\* that is verified when it is looked up is answered AlreadyVerified and
\* changes nothing: no row is written, no mail is sent.
C17_SecondConfirmationRejected ==
  [][ ( /\ resp'.op = "confirmation" /\ resp'.msg \in ConfLookup
        /\ \E u \in Registered : /\ users[u].token = resp'.token
                                  /\ users[u].code = resp'.code
                                  /\ users[u].isVerified )
      => /\ resp'.status = 400 /\ resp'.msg = "ACCOUNT_ALREADY_VERIFIED"
         /\ procs' = procs
         /\ EndsWithoutEffect ]_vars

\* the pair of an account confirmed at an earlier time, whose confirmation
\* mail was sent, was submitted again and refused; the stamp is the old one
C17_Witness ==
  /\ resp.op = "confirmation" /\ resp.msg = "ACCOUNT_ALREADY_VERIFIED"
  /\ users[resp.uid].isVerified
  /\ users[resp.uid].timestamp # NULL /\ users[resp.uid].timestamp < now
  /\ audit[resp.uid].confirmWrites = 1 /\ audit[resp.uid].confirmMails = 1

\* C18: a confirmation whose (token, code) pair is the pair of no account,
\* also when the token alone or the code alone is the one of an account, is
\* answered InvalidTokenOrCode and leaves every account as it was.
C18_PartialMatchRejected ==
  [][ ( /\ resp'.op = "confirmation" /\ resp'.msg \in ConfLookup
        /\ ~ \E u \in Registered : users[u].token = resp'.token /\ users[u].code = resp'.code )
      => /\ resp'.status = 401 /\ resp'.msg = "INVALID_TOKEN_CODE"
         /\ procs' = procs
         /\ EndsWithoutEffect ]_vars

\* the refused pair had the token of one account and the code of another
C18_Witness ==
  /\ resp.op = "confirmation" /\ resp.msg = "INVALID_TOKEN_CODE"
  /\ \E u \in Registered : users[u].token = resp.token /\ users[u].code # resp.code
  /\ \E v \in Registered : users[v].code = resp.code /\ users[v].token # resp.token

\* C20: the stored password of every user is a digest of the hasher and
\* never a plaintext, and the passwords it verifies are exactly the one set
\* by the latest register, resetPassword or changePassword of that user that
\* ended in success.
C20_StoredVerifiesLastSet ==
  \A u \in Registered :
    /\ users[u].password \notin Passwords
    /\ \E p \in Passwords : users[u].password = hashPassword(p)
    /\ \A p \in Passwords : comparePassword(p, users[u].password) <=> (p = audit[u].lastSet)

\* -------------------------------------------------- password recovery
\* The verified users whose PasswordRecovery row carries reset token t and an
\* expiry.
HoldersOf(t) ==
  {u \in Registered : /\ users[u].isVerified
                      /\ passwordRecovery[u].exists
                      /\ passwordRecovery[u].token = t
                      /\ passwordRecovery[u].expiry # NULL}

\* The clock units from expiry e to the present (negative before e).
ElapsedSince(e) == NowUnits - e

\* A request of handler op that passed its body validation.
Parsed(r, op) == r.op = op /\ r.msg # "VALIDATION_ERROR"

\* The step wrote neither a user, nor a recovery row, nor a refresh token.
NothingWritten ==
  /\ users' = users /\ passwordRecovery' = passwordRecovery
  /\ refreshTokens' = refreshTokens

\* C21: a resetPassword whose token is the one of the PasswordRecovery row of
\* a verified user, with expiry E, made at time T, is refused with Timeout
\* exactly when the whole minutes from E to T are 15 or more; otherwise it
\* passes the expiry check: it is answered PasswordSame when the new password
\* is the current one and writes the new digest when it is not.
C21_TimeoutAtFifteenMinutes ==
  [][ \A u \in HoldersOf(resp'.token) :
        (resp'.op = "resetPassword" /\ resp'.msg # "VALIDATION_ERROR")
        => LET late == ElapsedSince(passwordRecovery[u].expiry)
                         >= 15 * UnitsPerMinute IN
           /\ (resp'.msg = "TIMEOUT") <=> late
           /\ late => /\ resp'.status = 403
                      /\ NothingWritten
           /\ ~late =>
                IF users[u].password = hashPassword(resp'.password)
                  THEN resp'.msg = "PASSWORD_SAME"
                ELSE /\ resp'.msg \in {"PASSWORD_RESET", "MAIL_FAILED"}
                     /\ users'[u].password = hashPassword(resp'.password) ]_vars

\* a reset was refused with Timeout exactly 15 minutes after the expiry of
\* its token, and the row still carries the token
C21_Witness ==
  /\ resp.op = "resetPassword" /\ resp.msg = "TIMEOUT"
  /\ resp.uid \in HoldersOf(resp.token)
  /\ ElapsedSince(passwordRecovery[resp.uid].expiry) = 15 * UnitsPerMinute

\* C22: after a forgotPassword that ended in success at time T the user has
\* one PasswordRecovery row, whose token is the token generated by this
\* request (not the one the row held before) and whose expiry is T plus 15
\* minutes; the rows of the other users are as they were.
C22_ForgotSavesTokenAndExpiry ==
  /\ [] ( (resp.op = "forgotPassword" /\ resp.status = 200)
          => /\ resp.token \in ResetTokens
             /\ resp.mail = "reset_link"
             /\ passwordRecovery[resp.uid].exists
             /\ passwordRecovery[resp.uid].token = resp.token
             /\ passwordRecovery[resp.uid].expiry = NowUnits + 15 * UnitsPerMinute )
  /\ [][ (resp'.op = "forgotPassword" /\ resp'.status = 200)
         => /\ resp'.token # passwordRecovery[resp'.uid].token
            /\ \A v \in UserIds \ {resp'.uid} : passwordRecovery'[v] = passwordRecovery[v]
            /\ users' = users ]_vars

\* the second successful forgotPassword of a user, at a later time than the
\* first: the row holds the second token and the later expiry
C22_Witness ==
  /\ resp.op = "forgotPassword" /\ resp.status = 200
  /\ audit[resp.uid].resets = 2
  /\ passwordRecovery[resp.uid].token = resp.token
  /\ passwordRecovery[resp.uid].expiry > 15 * UnitsPerMinute

\* The reset tokens with which a resetPassword of user u has ended in success.
SpentTokens(u) == {t \in ResetTokens : audit[u].resetSuccesses[t] >= 1}

\* C23: once a resetPassword has succeeded with token t, every later
\* resetPassword that presents t is answered TokenExpired (401) and writes
\* nothing: the password stays as the successful reset left it.
C23_TokenSingleUse ==
  [][ \A u \in Registered :
        ( /\ resp'.op = "resetPassword" /\ resp'.msg # "VALIDATION_ERROR"
          /\ resp'.token \in SpentTokens(u) )
        => /\ resp'.status = 401 /\ resp'.msg = "TOKEN_EXPIRED"
           /\ NothingWritten ]_vars

\* a spent token was presented again with a password other than the stored
\* one and was refused; the stored password is the one the first reset set
C23_Witness ==
  /\ resp.op = "resetPassword" /\ resp.msg = "TOKEN_EXPIRED"
  /\ \E u \in Registered :
       /\ resp.token \in SpentTokens(u)
       /\ users[u].password # hashPassword(resp.password)
       /\ users[u].password = hashPassword(audit[u].lastSet)

\* C24: after a resetPassword that ended in success the PasswordRecovery row
\* of the user still exists, its token and its expiry are null, and the
\* stored password of the user is the digest of the new password.
C24_ResetClearsTokenKeepsRow ==
  (resp.op = "resetPassword" /\ resp.status = 200)
  => /\ resp.uid \in Registered
     /\ passwordRecovery[resp.uid].exists
     /\ passwordRecovery[resp.uid].token = 0
     /\ passwordRecovery[resp.uid].expiry = NULL
     /\ users[resp.uid].password = hashPassword(resp.password)
     /\ resp.mail = "password_changed"

\* a reset replaced the password given at registration
C24_Witness ==
  /\ resp.op = "resetPassword" /\ resp.status = 200
  /\ resp.password = "pw2"
  /\ users[resp.uid].password = hashPassword("pw2")
  /\ passwordRecovery[resp.uid].exists
  /\ audit[resp.uid].resetWrites[resp.token] = 1

\* C28: a resetPassword never ends in success at a time later than the
\* expiry of the PasswordRecovery row its token matches: a token issued at
\* time T changes no password after T plus 15 minutes.
C28_NoResetAfterExpiry ==
  [][ (resp'.op = "resetPassword" /\ resp'.status = 200)
      => NowUnits <= passwordRecovery[resp'.uid].expiry ]_vars

\* C30: after two forgotPassword requests of a user (tokens t1, then t2) a
\* resetPassword with t1 is answered TokenExpired (401) and writes nothing,
\* and a resetPassword that writes the password of the user presented the
\* token issued last.
IssuedTokens(u) == {(u - 1) * MaxResets + i : i \in 1..audit[u].resets}

LatestToken(u) == (u - 1) * MaxResets + audit[u].resets

C30_OnlyLatestTokenResets ==
  [][ \A u \in Registered :
        /\ ( /\ resp'.op = "resetPassword" /\ resp'.msg # "VALIDATION_ERROR"
             /\ resp'.token \in IssuedTokens(u) \ {LatestToken(u)} )
           => /\ resp'.status = 401 /\ resp'.msg = "TOKEN_EXPIRED"
              /\ NothingWritten
        /\ (resp'.op = "resetPassword" /\ users'[u] # users[u])
           => resp'.token = LatestToken(u) ]_vars

\* the first of two issued tokens, never used before, was presented with a
\* password other than the stored one and refused, while the second token
\* is still in the row
C30_Witness ==
  /\ resp.op = "resetPassword" /\ resp.msg = "TOKEN_EXPIRED"
  /\ \E u \in Registered :
       /\ audit[u].resets = 2
       /\ resp.token = (u - 1) * MaxResets + 1
       /\ resp.token \notin SpentTokens(u)
       /\ audit[u].resetWrites[resp.token] = 0
       /\ passwordRecovery[u].token = LatestToken(u)
       /\ users[u].password # hashPassword(resp.password)

\* --------------------------------------------------- password handlers
\* C25: a resetPassword whose token is the one of a row that has not timed
\* out and whose new password is the current one, and a changePassword whose
\* old password verifies and whose new password equals it, are answered
\* PasswordSame (409) and leave the stored digest, the reset token and its
\* expiry as they were.
C25_SamePasswordRefused ==
  [][ /\ \A u \in HoldersOf(resp'.token) :
           ( /\ resp'.op = "resetPassword" /\ resp'.msg # "VALIDATION_ERROR"
             /\ ElapsedSince(passwordRecovery[u].expiry) < 15 * UnitsPerMinute
             /\ users[u].password = hashPassword(resp'.password) )
           => /\ resp'.status = 409 /\ resp'.msg = "PASSWORD_SAME"
              /\ NothingWritten
      /\ ( /\ resp'.op = "changePassword" /\ resp'.msg # "VALIDATION_ERROR"
           /\ users[resp'.uid].password = hashPassword(resp'.oldPassword)
           /\ resp'.password = resp'.oldPassword )
         => /\ resp'.status = 409 /\ resp'.msg = "PASSWORD_SAME"
            /\ NothingWritten ]_vars

\* a changePassword to the current password was refused while the row of the
\* user held a reset token
C25_Witness ==
  /\ resp.op = "changePassword" /\ resp.msg = "PASSWORD_SAME"
  /\ resp.password = resp.oldPassword
  /\ users[resp.uid].password = hashPassword(resp.password)
  /\ passwordRecovery[resp.uid].token \in ResetTokens

\* a resetPassword to the current password was refused
C25_ResetCase ==
  /\ resp.op = "resetPassword" /\ resp.msg = "PASSWORD_SAME"
  /\ resp.uid \in HoldersOf(resp.token)
  /\ users[resp.uid].password = hashPassword(resp.password)

\* C26: a changePassword of an authenticated verified user whose old
\* password verifies and whose new password differs from it, whether or not
\* the user has a PasswordRecovery row, ends in success; afterwards the
\* stored digest verifies the new password and not the old one, the last
\* password change is stamped with the present time and the mail was sent.
C26_ChangePasswordSucceeds ==
  [][ ( /\ resp'.op = "changePassword"
        /\ resp'.msg \notin {"VALIDATION_ERROR", "MAIL_FAILED"}
        /\ users[resp'.uid].isVerified
        /\ users[resp'.uid].password = hashPassword(resp'.oldPassword)
        /\ resp'.password # resp'.oldPassword )
      => /\ resp'.status = 202 /\ resp'.msg = "PASSWORD_CHANGED"
         /\ comparePassword(resp'.password, users'[resp'.uid].password)
         /\ ~comparePassword(resp'.oldPassword, users'[resp'.uid].password)
         /\ passwordRecovery'[resp'.uid].lastResetAt = now
         /\ resp'.mail = "password_changed" ]_vars

\* C27: a changePassword whose old password does not verify against the
\* stored digest is answered InvalidCredentials; the stored digest, the last
\* password change stamp and the refresh token row are as they were and no
\* mail is sent.
C27_WrongOldPasswordRefused ==
  [][ ( /\ resp'.op = "changePassword" /\ resp'.msg # "VALIDATION_ERROR"
        /\ users[resp'.uid].password # hashPassword(resp'.oldPassword) )
      => /\ resp'.status = 403 /\ resp'.msg = "INVALID_CREDENTIALS"
         /\ NothingWritten
         /\ resp'.mail = NoResp.mail
         /\ resp'.setAccess = NoResp.setAccess /\ resp'.setRefresh = NoResp.setRefresh ]_vars

\* the refused request asked for a password other than the stored one, for a
\* user with a refresh token row and an earlier password change stamp
C27_Witness ==
  /\ resp.op = "changePassword" /\ resp.msg = "INVALID_CREDENTIALS"
  /\ users[resp.uid].password # hashPassword(resp.oldPassword)
  /\ users[resp.uid].password # hashPassword(resp.password)
  /\ refreshTokens[resp.uid] # NoToken
  /\ passwordRecovery[resp.uid].lastResetAt # NULL

\* C29: of the resetPassword requests that present one reset token at most
\* one ends in success, also when they interleave at their store calls: an
\* issued token causes at most one password update.
C29_OneResetPerToken ==
  \A u \in Registered : \A t \in ResetTokens :
    /\ audit[u].resetWrites[t] <= 1
    /\ audit[u].resetSuccesses[t] <= 1

\* ------------------------------------------- sessions across password changes
\* C31: resetPassword and changePassword leave every RefreshToken row as it
\* was, so the answer refresh gives to any refresh token is the same after
\* the request as before it; a refresh that presents the stored, unexpired
\* token of a user is accepted whatever password changes came after the login
\* that issued it; the stored refresh token changes in login and logout only.
C31_PasswordChangeKeepsSession ==
  /\ [][ (resp'.op \in {"resetPassword", "changePassword"})
         => /\ refreshTokens' = refreshTokens
            /\ \A rt \in Cookies :
                 refreshOutcome(NoToken, rt)' = refreshOutcome(NoToken, rt) ]_vars
  /\ [][ (refreshTokens' # refreshTokens) => resp'.op \in {"login", "logout"} ]_vars
  /\ []( ( /\ resp.op = "refresh" /\ ~resp.hadAccess /\ resp.presented # NoToken
           /\ Subject(resp.presented) \in UserIds
           /\ refreshTokens[Subject(resp.presented)] = resp.presented
           /\ verifyToken(resp.presented, "refresh", now) = "ok" )
         => resp.status = 200 )

\* a refresh token was accepted after a changePassword, made at a later time
\* than the login that issued the token, had replaced the password
C31_Witness ==
  /\ resp.op = "refresh" /\ resp.status = 200
  /\ refreshTokens[resp.uid] = resp.presented
  /\ resp.presented.iat < passwordRecovery[resp.uid].lastResetAt
  /\ users[resp.uid].password = hashPassword("pw2")
  /\ audit[resp.uid].lastSet = "pw2"

\* the same after a resetPassword that ended in success
C31_ResetCase ==
  /\ resp.op = "refresh" /\ resp.status = 200
  /\ refreshTokens[resp.uid] = resp.presented
  /\ SpentTokens(resp.uid) # {}
  /\ passwordRecovery[resp.uid].lastResetAt = NULL
  /\ users[resp.uid].password = hashPassword("pw2")

\* C32: a changePassword or resetPassword request that is answered with an
\* error (a status other than its success status) leaves the stored password
\* of every user as it was before the request.
C32_ErrorLeavesPassword ==
  [][ ( /\ resp'.op \in {"resetPassword", "changePassword"}
        /\ resp'.status \notin {0, 200, 202} )
      => \A u \in Registered : users'[u].password = users[u].password ]_vars

\* C33: in every reachable state a PasswordRecovery row exists only for a
\* verified user, and no resetPassword is answered AccountNotVerified.
C33_RecoveryOnlyForVerified ==
  /\ \A u \in UserIds :
       passwordRecovery[u].exists => (u \in Registered /\ users[u].isVerified)
  /\ resp.op = "resetPassword" => resp.msg # "ACCOUNT_NOT_VERIFIED"

\* a forgotPassword for the email of a registered, not yet verified user was
\* answered UserNotFound and no row was made
C33_Witness ==
  /\ resp.op = "forgotPassword" /\ resp.msg = "USER_NOT_FOUND"
  /\ \E u \in Registered : /\ users[u].email = resp.key
                           /\ ~users[u].isVerified
                           /\ ~passwordRecovery[u].exists

\* C34: in every reachable state the token of a PasswordRecovery row is null
\* exactly when its expiry is null; a resetPassword is answered with the
\* 'no expiry recorded' error (403) only when the row no longer holds the
\* token it presented, because a resetPassword of the same user has cleared
\* the row after the token lookup of this request.
C34_TokenNullIffExpiryNull ==
  /\ [] \A u \in UserIds :
          /\ (passwordRecovery[u].token = 0) <=> (passwordRecovery[u].expiry = NULL)
          /\ ~passwordRecovery[u].exists => passwordRecovery[u].token = 0
  /\ [][ ( /\ resp'.op = "resetPassword" /\ resp'.status = 403
           /\ resp'.msg = "VALIDATION_ERROR" )
         => /\ passwordRecovery[resp'.uid].token = 0
            /\ passwordRecovery[resp'.uid].token # resp'.token
            /\ \E t \in ResetTokens : audit[resp'.uid].resetWrites[t] >= 1 ]_vars

\* a request that had found its token read a null expiry: the other request
\* with the same token had written the password and cleared the row
C34_Witness ==
  /\ resp.op = "resetPassword" /\ resp.status = 403 /\ resp.msg = "VALIDATION_ERROR"
  /\ resp.token \in ResetTokens
  /\ audit[resp.uid].resetWrites[resp.token] = 1
  /\ passwordRecovery[resp.uid].token = 0
  /\ passwordRecovery[resp.uid].expiry = NULL

\* the 'no expiry recorded' answer of resetPassword
C34_NoExpiryAnswer ==
  ~(resp.op = "resetPassword" /\ resp.status = 403 /\ resp.msg = "VALIDATION_ERROR")

\* ------------------------------------------------------ likes and saves
\* The pair a like, unlike, save or unsave request is about.
PairOf(r) == <<r.uid, r.blogId>>

\* The request names a user and a post that exist.
NamesUserAndBlog(r) == r.uid \in Registered /\ r.blogId \in 1..posts

C35_MissingBlogCase ==
  /\ resp.op = "like" /\ resp.status = 404 /\ resp.msg = "ENTITY_NOT_FOUND_Blog"
  /\ resp.uid \in Registered

C36_RefusedCase ==
  /\ resp.op = "unlike" /\ resp.status = 403 /\ resp.msg = "ENTITY_NOT_FOUND_Like"
  /\ \E u \in Registered : u # resp.uid /\ likedPosts[<<u, resp.blogId>>] = 1

C37_UncommentCase ==
  /\ resp.op = "uncomment" /\ resp.status = 403
  /\ resp.uid \in Registered
  /\ resp.commentId \in LiveComments
  /\ comments[resp.commentId].owner # resp.uid

\* The live comments of user u on post b.
CommentsOf(u, b) ==
  {c \in LiveComments : comments[c].owner = u /\ comments[c].blogId = b}

C38_RefusedCase ==
  /\ resp.op = "comment" /\ resp.status = 403 /\ resp.msg = "ENTITY_EXISTS_Comment"
  /\ Cardinality(CommentsOf(resp.uid, resp.blogId)) = 1
  /\ \E u \in Registered : u # resp.uid /\ CommentsOf(u, resp.blogId) # {}

====
